---- MODULE Spec2Model ----
(***************************************************************************)
(* Model of the prompt-orchestration layer of the portal: the provider     *)
(* client (engines/llm.py, utils.py), the JSON extractor (engines/llm.py), *)
(* the campaign-brief dialogue (engines/briefs.py and its page) and the    *)
(* focus-group debate (engines/audience.py).                               *)
(*                                                                         *)
(* A text is a sequence of atoms.  An atom is one lexical unit of the      *)
(* text: a punctuation character, a blank, a word, the three-backtick      *)
(* fence, or the word json.  An absent value (Python None) of an optional  *)
(* argument is the empty sequence, a present one a one-element sequence.   *)
(***************************************************************************)
EXTENDS Integers, Sequences, FiniteSets, TLC

VARIABLES
    secrets,      \* st.secrets / os.environ and the importable client libraries
    llmReq,       \* the arguments of the provider-client call being served
    llmRes,       \* what that call handed back to its caller
    jsonText,     \* the model text given to the JSON extractor
    jsonOrigin,   \* how jsonText was produced (a wrapped value, or raw atoms)
    jsonDone,     \* which extractor entry points have run on jsonText
    jsonParsed,   \* result of parse_json_object(jsonText)
    jsonExtracted, \* result of extract_json_object(jsonText)
    coerceIn,     \* the argument given to coerce_brief
    coerceOut,    \* coerce_brief(coerceIn), once applied
    coerceTwice,  \* coerce_brief applied to coerceOut, once applied
    session,      \* the cw_brief_* widget values of the copywriter page
    chat,         \* cw_brief_chat: the brief dialogue so far
    chatReady,    \* cw_brief_chat_ready
    briefCall,    \* the engine call the page made in this run, and its result
    fgArgs,       \* the arguments of the focus_group_debate call in progress
    fgPc,         \* the provider call focus_group_debate is waiting on
    fgLocals,     \* its local variables
    fgCalls,      \* the provider attempts it has made, in order
    fgResult,     \* the mapping it returned
    htArgs,       \* the widget values of the headline page when Run was pressed
    htPc,         \* where the run handler of the headline page is
    htLocals,     \* its local variables
    htResults,    \* results: one entry per persona tested so far
    htLast,       \* st.session_state["headline_test_last"] and what the page shows
    trIn,         \* the arguments given to trait_rules
    trOut,        \* trait_rules(trIn), once applied
    gcCall,       \* the generate_copy_with_plan call made, and its result
    qaArgs,       \* the arguments of the qa_and_patch_copy call in progress
    qaPc,         \* the provider call qa_and_patch_copy is waiting on
    qaLocals,     \* its local variables
    qaCalls,      \* the provider attempts it has made, in order
    qaResult,     \* the mapping it returned
    exArgs,       \* the creative and excerpt settings given to focus_group_debate
    exOut,        \* the excerpt and the moderator's creative it computed from them
    twOut,        \* truncate_words applied to the raw creative, once applied
    fmArgs,       \* the arguments of the fetch_meta_descriptions call in progress
    fmSem,        \* sem: the free permits and the tasks queued for one
    fmTasks,      \* where each bound(u) task is
    fmResults,    \* what each finished task returned
    fmReturn      \* what gather handed back, once every task has finished

llmVars == <<secrets, llmReq, llmRes>>
jsonVars == <<jsonText, jsonOrigin, jsonDone, jsonParsed, jsonExtracted>>
coerceVars == <<coerceIn, coerceOut, coerceTwice>>
briefVars == <<session, chat, chatReady, briefCall>>
debateVars == <<fgArgs, fgPc, fgLocals, fgCalls, fgResult>>
headlineVars == <<htArgs, htPc, htLocals, htResults, htLast>>
creativeVars == <<trIn, trOut, gcCall, qaArgs, qaPc, qaLocals, qaCalls, qaResult>>
excerptVars == <<exArgs, exOut, twOut>>
fetchVars == <<fmArgs, fmSem, fmTasks, fmResults, fmReturn>>
vars == <<llmVars, jsonVars, coerceVars, briefVars, debateVars, headlineVars, creativeVars,
          excerptVars, fetchVars>>

(***************************************************************************)
(* Text helpers (Python str methods as the code uses them).                *)
(***************************************************************************)
SP == " "

RECURSIVE lstrip(_)
lstrip(t) == IF t # <<>> /\ Head(t) = SP THEN lstrip(Tail(t)) ELSE t

RECURSIVE rstrip(_)
rstrip(t) ==
    IF t # <<>> /\ t[Len(t)] = SP THEN rstrip(SubSeq(t, 1, Len(t) - 1)) ELSE t

strip(t) == rstrip(lstrip(t))

startswith(t, p) == Len(t) >= Len(p) /\ SubSeq(t, 1, Len(p)) = p

\* str.find / str.rfind of a single atom; 0 stands for Python's -1.
find(t, c) ==
    IF \E i \in 1..Len(t) : t[i] = c
    THEN CHOOSE i \in 1..Len(t) : t[i] = c /\ \A j \in 1..(i - 1) : t[j] # c
    ELSE 0

rfind(t, c) ==
    IF \E i \in 1..Len(t) : t[i] = c
    THEN CHOOSE i \in 1..Len(t) : t[i] = c /\ \A j \in (i + 1)..Len(t) : t[j] # c
    ELSE 0

\* str.replace(pat, ""): leftmost non-overlapping occurrences are removed.
RECURSIVE remove(_, _)
remove(t, pat) ==
    IF t = <<>> THEN <<>>
    ELSE IF startswith(t, pat) THEN remove(SubSeq(t, Len(pat) + 1, Len(t)), pat)
    ELSE <<Head(t)>> \o remove(Tail(t), pat)

(***************************************************************************)
(* model_registry.py                                                       *)
(***************************************************************************)
DEFAULT_OPENAI_MODEL == "gpt-4.1"
DEFAULT_OPENAI_FAST_MODEL == "gpt-4o-mini"
DEFAULT_GEMINI_MODEL == "gemini-2.5-pro"
DEFAULT_GEMINI_CHEAP_MODEL == "gemini-2.5-flash-lite"

(***************************************************************************)
(* utils.py: credential resolution and client construction.                *)
(***************************************************************************)
None == <<>>

\* A stored credential: absent, blank, or a usable key.
SecretValues == {<<>>, <<SP>>, <<"key">>}

\* get_secret(path): st.secrets first, then the environment, else None.
get_secret(store, environ) ==
    IF store # None /\ strip(store) # <<>> THEN strip(store)
    ELSE IF environ # None /\ strip(environ) # <<>> THEN strip(environ)
    ELSE None

\* get_openai_client(): None when the library is missing, the key is
\* missing, or the constructor raises; TRUE stands for a client object.
get_openai_client(s) ==
    IF ~s.openaiLib THEN FALSE
    ELSE IF get_secret(s.openaiSecret, s.openaiEnv) = None THEN FALSE
    ELSE s.openaiCtorOk

get_gemini_client(s) ==
    IF ~s.geminiLib THEN FALSE
    ELSE IF get_secret(s.geminiSecret, s.geminiEnv) = None THEN FALSE
    ELSE s.geminiConfigureOk

(***************************************************************************)
(* engines/llm.py: the provider client.                                    *)
(*                                                                         *)
(* A call result is [raised, text, log]: whether an exception left the     *)
(* function, the returned text, and the provider attempts made, in order.  *)
(* The outcome of the remote call is the argument oc (or og for Gemini):   *)
(* kind "ok" with the content, "none" (no content) or "raise" with the     *)
(* exception's message.                                                     *)
(***************************************************************************)
ERR == "Error:"
OPENAI_NOT_CONFIGURED == <<ERR, SP, "OpenAI client not configured.">>

Message(role, content) == [role |-> role, content |-> content]

OpenAIAttempt(messages, model, temperature, response_format, max_tokens, sent) ==
    [provider |-> "Primary", model |-> model, messages |-> messages,
     temperature |-> temperature, json_mode |-> response_format # None,
     max_tokens |-> max_tokens, sent |-> sent]

\* Variant of query_openai whose try block lets the provider exception out.
query_openai_uncaught(s, messages, model, temperature, response_format, max_tokens, oc) ==
    LET att == OpenAIAttempt(messages, model, temperature, response_format,
                             max_tokens, get_openai_client(s))
    IN  IF ~get_openai_client(s)
        THEN [raised |-> FALSE, text |-> OPENAI_NOT_CONFIGURED, log |-> <<att>>]
        ELSE CASE oc.kind = "ok"    -> [raised |-> FALSE, text |-> strip(oc.text),
                                        log |-> <<att>>]
               [] oc.kind = "none"  -> [raised |-> FALSE, text |-> <<>>, log |-> <<att>>]
               [] oc.kind = "raise" -> [raised |-> TRUE, text |-> <<>>, log |-> <<att>>]

query_openai(s, messages, model, temperature, response_format, max_tokens, oc) ==
    IF ~get_openai_client(s)
    THEN [raised |-> FALSE, text |-> OPENAI_NOT_CONFIGURED,
          log |-> <<OpenAIAttempt(messages, model, temperature, response_format,
                                  max_tokens, FALSE)>>]
    ELSE LET att == OpenAIAttempt(messages, model, temperature, response_format,
                                  max_tokens, TRUE)
         IN  CASE oc.kind = "ok"    -> [raised |-> FALSE, text |-> strip(oc.text),
                                        log |-> <<att>>]
               [] oc.kind = "none"  -> [raised |-> FALSE, text |-> <<>>, log |-> <<att>>]
               [] oc.kind = "raise" -> [raised |-> FALSE,
                                        text |-> <<ERR, SP>> \o oc.text,
                                        log |-> <<att>>]

GeminiAttempt(system_instruction, user_prompt, model_name, temperature, max_output_tokens, expect_json) ==
    [provider |-> "Secondary", model |-> model_name,
     messages |-> <<Message("system", system_instruction),
                    Message("user", user_prompt)>>,
     temperature |-> temperature, json_mode |-> expect_json,
     max_tokens |-> <<max_output_tokens>>, sent |-> TRUE]

\* The fallback request of query_gemini_chat: system + user message, the
\* default OpenAI model, every other argument left at query_openai's default.
OPENAI_DEFAULT_TEMPERATURE == 7

GeminiFallback(s, system_instruction, user_prompt, oc) ==
    query_openai(s, <<Message("system", system_instruction),
                      Message("user", user_prompt)>>,
                 DEFAULT_OPENAI_MODEL, OPENAI_DEFAULT_TEMPERATURE, None, None, oc)

\* Variant of query_gemini_chat that reports a Gemini exception as an error
\* text instead of falling back to OpenAI.
query_gemini_chat_nofallback(s, system_instruction, user_prompt, model_name, temperature, max_output_tokens, expect_json, og, oc) ==
    IF ~get_gemini_client(s)
    THEN GeminiFallback(s, system_instruction, user_prompt, oc)
    ELSE LET att == GeminiAttempt(system_instruction, user_prompt, model_name,
                                  temperature, max_output_tokens, expect_json)
         IN  CASE og.kind = "ok"    -> [raised |-> FALSE, text |-> strip(og.text),
                                        log |-> <<att>>]
               [] og.kind = "none"  -> [raised |-> FALSE, text |-> <<>>, log |-> <<att>>]
               [] og.kind = "raise" -> [raised |-> FALSE,
                                        text |-> <<ERR, SP>> \o og.text,
                                        log |-> <<att>>]

query_gemini_chat(s, system_instruction, user_prompt, model_name, temperature, max_output_tokens, expect_json, og, oc) ==
    IF ~get_gemini_client(s)
    THEN GeminiFallback(s, system_instruction, user_prompt, oc)
    ELSE LET att == GeminiAttempt(system_instruction, user_prompt, model_name,
                                  temperature, max_output_tokens, expect_json)
         IN  CASE og.kind = "ok"    -> [raised |-> FALSE, text |-> strip(og.text),
                                        log |-> <<att>>]
               [] og.kind = "none"  -> [raised |-> FALSE, text |-> <<>>, log |-> <<att>>]
               [] og.kind = "raise" ->
                    LET fb == GeminiFallback(s, system_instruction, user_prompt, oc)
                    IN  [fb EXCEPT !.log = <<att>> \o fb.log]

\* query_gemini(prompt, model_name): the single-prompt helper.
GEMINI_DEFAULT_MAX_OUTPUT_TOKENS == 4096

query_gemini(s, prompt, model_name, og, oc) ==
    query_gemini_chat(s, <<>>, prompt, model_name, OPENAI_DEFAULT_TEMPERATURE,
                      GEMINI_DEFAULT_MAX_OUTPUT_TOKENS, FALSE, og, oc)

(***************************************************************************)
(* Configurations, requests and remote outcomes of the provider client.    *)
(***************************************************************************)
SecretsStates ==
    [openaiLib : BOOLEAN, openaiSecret : SecretValues, openaiEnv : {<<>>, <<"key">>},
     openaiCtorOk : BOOLEAN,
     geminiLib : BOOLEAN, geminiSecret : SecretValues, geminiEnv : {<<>>, <<"key">>},
     geminiConfigureOk : BOOLEAN]

DefaultSecrets ==
    [openaiLib |-> TRUE, openaiSecret |-> <<"key">>, openaiEnv |-> <<>>,
     openaiCtorOk |-> TRUE,
     geminiLib |-> TRUE, geminiSecret |-> <<"key">>, geminiEnv |-> <<>>,
     geminiConfigureOk |-> TRUE]

SystemInstructions == {<<>>, <<"persona">>}
UserPrompts == {<<"ask">>, <<"ask", SP, "again">>}
ProviderTexts == {<<SP, "reply", SP>>, <<"reply">>}
ExceptionTexts == {<<"timeout">>}

Outcomes ==
    [kind : {"ok"}, text : ProviderTexts]
        \cup [kind : {"none"}, text : {<<>>}]
        \cup [kind : {"raise"}, text : ExceptionTexts]

NoOutcome == [kind |-> "unused", text |-> <<>>]
NoReq == [entry |-> "idle", system |-> <<>>, user |-> <<>>, model |-> "",
          expect_json |-> FALSE, og |-> NoOutcome, oc |-> NoOutcome]
NoRes == [raised |-> FALSE, text |-> <<>>, log |-> <<>>]

InitLLM0 == /\ secrets = DefaultSecrets
            /\ llmReq = NoReq
            /\ llmRes = NoRes

(***************************************************************************)
(* json.loads on atom sequences.  A parsed value is a tagged record:       *)
(* "obj" with m a function from key texts to values (a later duplicate key *)
(* overrides an earlier one, as in a Python dict), "arr" with a sequence,  *)
(* "str" with its content, "num" with its digits, "true", "false", and     *)
(* "null", which is also Python's None.                                    *)
(***************************************************************************)
QT == "\""
\* The markdown code-fence token (three backticks), one atom.
FENCE == "<fence>"
JSON_WORD == "json"

JNull == [t |-> "null"]
JTrue == [t |-> "true"]
JFalse == [t |-> "false"]
JStr(s) == [t |-> "str", s |-> s]
JNum(d) == [t |-> "num", d |-> d]
JArr(a) == [t |-> "arr", a |-> a]
JObj(m) == [t |-> "obj", m |-> m]
isinstance_dict(v) == v.t = "obj"

\* Index of the first non-blank atom at or after i (Len(t) + 1 if none).
RECURSIVE skipws(_, _)
skipws(t, i) == IF i <= Len(t) /\ t[i] = SP THEN skipws(t, i + 1) ELSE i

\* The digit atoms of a number; a number is a run of them.
Digits == {"1", "2", "3", "4", "5"}

\* Index just after the run of digits that starts at i.

RECURSIVE digitsEnd(_, _)
digitsEnd(t, i) == IF i <= Len(t) /\ t[i] \in Digits THEN digitsEnd(t, i + 1) ELSE i

\* Index of the next quote at or after i (0 if none).
RECURSIVE nextQuote(_, _)
nextQuote(t, i) ==
    IF i > Len(t) THEN 0 ELSE IF t[i] = QT THEN i ELSE nextQuote(t, i + 1)

ParseFail == [ok |-> FALSE, val |-> JNull, pos |-> 0]
ParseOk(v, p) == [ok |-> TRUE, val |-> v, pos |-> p]

\* A string literal starting at the quote t[i].
ParseString(t, i) ==
    LET e == nextQuote(t, i + 1)
    IN  IF e = 0 THEN ParseFail ELSE ParseOk(JStr(SubSeq(t, i + 1, e - 1)), e + 1)

RECURSIVE ParseValue(_, _)
RECURSIVE ParseMembers(_, _, _)
RECURSIVE ParseElements(_, _, _)

\* The members of an object, the first key expected at i; m holds the
\* members read so far.
ParseMembers(t, i, m) ==
    IF i > Len(t) \/ t[i] # QT THEN ParseFail
    ELSE LET k == ParseString(t, i)
         IN  IF ~k.ok THEN ParseFail
             ELSE LET c == skipws(t, k.pos)
                  IN  IF c > Len(t) \/ t[c] # ":" THEN ParseFail
                      ELSE LET v == ParseValue(t, skipws(t, c + 1))
                           IN  IF ~v.ok THEN ParseFail
                               ELSE LET n == skipws(t, v.pos)
                                        m2 == [x \in (DOMAIN m) \cup {k.val.s} |->
                                                 IF x = k.val.s THEN v.val ELSE m[x]]
                                    IN  IF n > Len(t) THEN ParseFail
                                        ELSE IF t[n] = "}" THEN ParseOk(JObj(m2), n + 1)
                                        ELSE IF t[n] = ","
                                             THEN ParseMembers(t, skipws(t, n + 1), m2)
                                        ELSE ParseFail

\* The elements of an array, the first value expected at i.
ParseElements(t, i, a) ==
    LET v == ParseValue(t, i)
    IN  IF ~v.ok THEN ParseFail
        ELSE LET n == skipws(t, v.pos)
                 a2 == Append(a, v.val)
             IN  IF n > Len(t) THEN ParseFail
                 ELSE IF t[n] = "]" THEN ParseOk(JArr(a2), n + 1)
                 ELSE IF t[n] = "," THEN ParseElements(t, skipws(t, n + 1), a2)
                 ELSE ParseFail

ParseValue(t, i) ==
    IF i > Len(t) THEN ParseFail
    ELSE CASE t[i] = "{" ->
                LET j == skipws(t, i + 1)
                IN  IF j <= Len(t) /\ t[j] = "}" THEN ParseOk(JObj(<<>>), j + 1)
                    ELSE ParseMembers(t, j, <<>>)
           [] t[i] = "[" ->
                LET j == skipws(t, i + 1)
                IN  IF j <= Len(t) /\ t[j] = "]" THEN ParseOk(JArr(<<>>), j + 1)
                    ELSE ParseElements(t, j, <<>>)
           [] t[i] = QT -> ParseString(t, i)
           [] t[i] \in Digits -> LET e == digitsEnd(t, i)
                            IN  ParseOk(JNum(SubSeq(t, i, e - 1)), e)
           [] t[i] = "true" -> ParseOk(JTrue, i + 1)
           [] t[i] = "false" -> ParseOk(JFalse, i + 1)
           [] t[i] = "null" -> ParseOk(JNull, i + 1)
           [] OTHER -> ParseFail

\* json.loads(t): ok is FALSE when it raises (no value, or extra data).
json_loads(t) ==
    LET v == ParseValue(t, skipws(t, 1))
    IN  IF ~v.ok THEN [ok |-> FALSE, val |-> JNull]
        ELSE IF skipws(t, v.pos) <= Len(t) THEN [ok |-> FALSE, val |-> JNull]
        ELSE [ok |-> TRUE, val |-> v.val]

\* json.dumps(v).
RECURSIVE Serialize(_)
RECURSIVE SerializeMembers(_, _)
RECURSIVE SerializeElements(_)
Serialize(v) ==
    CASE v.t = "obj" -> <<"{">> \o SerializeMembers(v.m, DOMAIN v.m) \o <<"}">>
      [] v.t = "arr" -> <<"[">> \o SerializeElements(v.a) \o <<"]">>
      [] v.t = "str" -> <<QT>> \o v.s \o <<QT>>
      [] v.t = "num" -> v.d
      [] OTHER -> <<v.t>>

SerializeMembers(m, ks) ==
    IF ks = {} THEN <<>>
    ELSE LET k == CHOOSE x \in ks : TRUE
             rest == ks \ {k}
         IN  <<QT>> \o k \o <<QT, ":", SP>> \o Serialize(m[k])
                 \o (IF rest = {} THEN <<>> ELSE <<",", SP>> \o SerializeMembers(m, rest))

SerializeElements(a) ==
    IF a = <<>> THEN <<>>
    ELSE Serialize(Head(a))
            \o (IF Len(a) = 1 THEN <<>> ELSE <<",", SP>> \o SerializeElements(Tail(a)))

(***************************************************************************)
(* engines/llm.py: the JSON extractor.  A result is [raised, val]; val is  *)
(* JNull for None.                                                         *)
(***************************************************************************)
Returned(v) == [raised |-> FALSE, val |-> v]
Raised == [raised |-> TRUE, val |-> JNull]

\* Variant of extract_json_object without the except clause around json.loads.
extract_json_object_unguarded(text) ==
    IF text = <<>> THEN Returned(JNull)
    ELSE LET start == find(text, "{")
             end == rfind(text, "}")
         IN  IF start = 0 \/ end = 0 \/ end <= start THEN Returned(JNull)
             ELSE LET r == json_loads(SubSeq(text, start, end))
                  IN  IF r.ok
                      THEN Returned(IF isinstance_dict(r.val) THEN r.val ELSE JNull)
                      ELSE Raised

extract_json_object(text) ==
    IF text = <<>> THEN Returned(JNull)
    ELSE LET start == find(text, "{")
             end == rfind(text, "}")
         IN  IF start = 0 \/ end = 0 \/ end <= start THEN Returned(JNull)
             ELSE LET r == json_loads(SubSeq(text, start, end))
                  IN  IF r.ok
                      THEN Returned(IF isinstance_dict(r.val) THEN r.val ELSE JNull)
                      ELSE Returned(JNull)

sanitize_json_text(text) ==
    LET t == strip(text)
    IN  IF t = <<>> THEN <<>>
        ELSE strip(remove(remove(t, <<FENCE, JSON_WORD>>), <<FENCE>>))

parse_json_object(text) ==
    LET cleaned == sanitize_json_text(text)
    IN  IF cleaned = <<>> THEN Returned(JNull)
        ELSE LET r == json_loads(cleaned)
             IN  IF r.ok
                 THEN Returned(IF isinstance_dict(r.val) THEN r.val ELSE JNull)
                 ELSE extract_json_object(cleaned)

(***************************************************************************)
(* engines/briefs.py: the fixed-shape brief.  Python values are the tagged *)
(* records of json.loads; a dict key is a text.                            *)
(***************************************************************************)
BRIEF_KEYS ==
    <<"hook", "details", "offer_price", "retail_price", "offer_term", "reports",
      "stocks_to_tease", "quotes_news">>

BriefKeySet == {<<BRIEF_KEYS[i]>> : i \in 1..Len(BRIEF_KEYS)}

\* d.get(k) on a dict.
dict_get(d, k) == IF k \in DOMAIN d.m THEN d.m[k] ELSE JNull

\* repr(v) and str(v) of a Python value.
RECURSIVE PyRepr(_)
RECURSIVE PyReprMembers(_, _)
RECURSIVE PyReprElements(_)
PyRepr(v) ==
    CASE v.t = "obj" -> <<"{">> \o PyReprMembers(v.m, DOMAIN v.m) \o <<"}">>
      [] v.t = "arr" -> <<"[">> \o PyReprElements(v.a) \o <<"]">>
      [] v.t = "str" -> <<"'">> \o v.s \o <<"'">>
      [] v.t = "num" -> v.d
      [] v.t = "true" -> <<"True">>
      [] v.t = "false" -> <<"False">>
      [] OTHER -> <<"None">>

PyReprMembers(m, ks) ==
    IF ks = {} THEN <<>>
    ELSE LET k == CHOOSE x \in ks : TRUE
             rest == ks \ {k}
         IN  <<"'">> \o k \o <<"'", ":", SP>> \o PyRepr(m[k])
                 \o (IF rest = {} THEN <<>> ELSE <<",", SP>> \o PyReprMembers(m, rest))

PyReprElements(a) ==
    IF a = <<>> THEN <<>>
    ELSE PyRepr(Head(a))
            \o (IF Len(a) = 1 THEN <<>> ELSE <<",", SP>> \o PyReprElements(Tail(a)))

PyStr(v) == IF v.t = "str" THEN v.s ELSE PyRepr(v)

\* bool(v).
PyBool(v) ==
    CASE v.t = "obj" -> DOMAIN v.m # {}
      [] v.t = "arr" -> v.a # <<>>
      [] v.t = "str" -> v.s # <<>>
      [] v.t = "num" -> TRUE
      [] v.t = "true" -> TRUE
      [] OTHER -> FALSE

\* Variant of _ensure_str that passes a non-None value through unconverted.
_ensure_str_passthrough(x) == IF x # JNull THEN x ELSE JStr(<<>>)

_ensure_str(x) == IF x # JNull THEN JStr(strip(PyStr(x))) ELSE JStr(<<>>)

\* Variant of coerce_brief that keeps only the brief keys the input has.
coerce_brief_partial(obj) ==
    LET d == IF isinstance_dict(obj) THEN obj ELSE JObj(<<>>)
    IN  JObj([k \in BriefKeySet \cap DOMAIN d.m |-> _ensure_str(dict_get(d, k))])

coerce_brief(obj) ==
    LET d == IF isinstance_dict(obj) THEN obj ELSE JObj(<<>>)
    IN  JObj([k \in BriefKeySet |-> _ensure_str(dict_get(d, k))])

(***************************************************************************)
(* engines/briefs.py: provider call with JSON parsing, brief extraction    *)
(* and the dialogue turn.  A pipeline result carries the keys of the       *)
(* returned mapping; a key that the mapping lacks has its default here.    *)
(***************************************************************************)
lower(p) ==
    CASE p = "Gemini" -> "gemini"
      [] p = "OpenAI" -> "openai"
      [] p = "Ready" -> "ready"
      [] p = "Google" -> "google"
      [] OTHER -> p

JSON_OBJECT == <<"json_object">>

\* The mapping _provider_call_json hands back for the provider's answer r:
\* the parsed object (None if none), the raw text and the attempts made.
ProviderCallResult(r, parsed) ==
    [raised |-> r.raised \/ parsed.raised, obj |-> parsed.val, raw |-> r.text,
     log |-> r.log]

ProviderCallParsed(r) == ProviderCallResult(r, parse_json_object(r.text))

_provider_call_json(provider, openai_model, gemini_model, system_instruction, user_prompt, temperature, max_tokens, s, og, oc) ==
    LET p == IF provider = "" THEN "OpenAI" ELSE provider
    IN  ProviderCallParsed(
            IF lower(p) = "gemini"
            THEN query_gemini_chat(s, system_instruction, user_prompt,
                    IF gemini_model = "" THEN DEFAULT_GEMINI_MODEL ELSE gemini_model,
                    temperature, max_tokens, TRUE, og, oc)
            ELSE query_openai(s, <<Message("system", system_instruction),
                                   Message("user", user_prompt)>>,
                    IF openai_model = "" THEN DEFAULT_OPENAI_FAST_MODEL ELSE openai_model,
                    temperature, JSON_OBJECT, <<max_tokens>>, oc))

NO_INPUT_TEXT == <<"No input text provided.">>
COULD_NOT_PARSE == <<"Could not parse JSON from the model response.">>
FALLBACK_QUESTION == <<"Could you rephrase that in one sentence?">>
DEFAULT_QUESTION == <<"What are you promoting, and who is it for?">>

EXTRACT_TEMPERATURE == 1
EXTRACT_MAX_TOKENS == 1400
TURN_TEMPERATURE == 2
TURN_MAX_TOKENS == 1200

BriefResult(raised, keys, error, brief, next_question, is_ready, raw, log) ==
    [raised |-> raised, keys |-> keys, error |-> error, brief |-> brief,
     next_question |-> next_question, is_ready |-> is_ready, raw |-> raw, log |-> log]

\* The return statements of extract_campaign_brief_from_text after the
\* provider call c.
extract_campaign_brief_return(c) ==
    IF ~isinstance_dict(c.obj)
    THEN BriefResult(c.raised, {"error", "brief", "raw"}, COULD_NOT_PARSE,
                     coerce_brief(JObj(<<>>)), <<>>, FALSE, c.raw, c.log)
    ELSE BriefResult(c.raised, {"brief", "raw"}, <<>>,
                     coerce_brief(c.obj), <<>>, FALSE, c.raw, c.log)

extract_campaign_brief_from_text(text, provider, openai_model, gemini_model, s, og, oc) ==
    LET src == strip(text)
    IN  IF src = <<>>
        THEN BriefResult(FALSE, {"error", "brief", "raw"}, NO_INPUT_TEXT,
                         coerce_brief(JObj(<<>>)), <<>>, FALSE, <<>>, <<>>)
        ELSE LET system == <<"You convert messy campaign notes into a structured brief.">>
                 user == <<"Extract these fields from the input:">> \o BRIEF_KEYS
                            \o <<"Input:">> \o src
             IN  extract_campaign_brief_return(
                     _provider_call_json(provider, openai_model, gemini_model, system,
                         user, EXTRACT_TEMPERATURE, EXTRACT_MAX_TOKENS, s, og, oc))

\* The text of the chat history handed to the model: the last 12 messages.
HISTORY_WINDOW == 12

RECURSIVE hist_text(_)
hist_text(history) ==
    IF history = <<>> THEN <<>>
    ELSE <<Head(history).role, ":", SP>> \o Head(history).content
            \o (IF Len(history) = 1 THEN <<>> ELSE <<"\n">> \o hist_text(Tail(history)))

LastN(q, n) == IF Len(q) <= n THEN q ELSE SubSeq(q, Len(q) - n + 1, Len(q))

TurnPrompt(chat_history, brief, copy_type, length_choice, country) ==
    <<"copy_type:", copy_type, "length_choice:", length_choice, "country:", country,
      "Current brief JSON:">> \o PyRepr(brief)
        \o <<"Conversation so far:">> \o strip(hist_text(LastN(chat_history, HISTORY_WINDOW)))

TURN_SYSTEM == <<"You are a senior direct-response marketing strategist.">>

\* The next question of a parsed turn: the model's, or the default one.
turn_next_question(obj) ==
    LET next_q == _ensure_str(dict_get(obj, <<"next_question">>)).s
    IN  IF next_q # <<>> THEN next_q ELSE DEFAULT_QUESTION

\* Variant of brief_builder_turn_return whose failure path returns an empty
\* brief.
brief_builder_turn_return_drop(brief, c) ==
    IF ~isinstance_dict(c.obj)
    THEN BriefResult(c.raised, {"error", "brief", "next_question", "is_ready", "raw"},
                     COULD_NOT_PARSE, coerce_brief(JObj(<<>>)), FALLBACK_QUESTION,
                     FALSE, c.raw, c.log)
    ELSE BriefResult(c.raised, {"brief", "next_question", "is_ready", "raw"}, <<>>,
                     coerce_brief(dict_get(c.obj, <<"brief">>)),
                     turn_next_question(c.obj),
                     PyBool(dict_get(c.obj, <<"is_ready">>)), c.raw, c.log)

\* Variant of brief_builder_turn_return that keeps the current value of
\* every key the model's brief does not mention.
brief_builder_turn_return_merge(brief, c) ==
    IF ~isinstance_dict(c.obj)
    THEN BriefResult(c.raised, {"error", "brief", "next_question", "is_ready", "raw"},
                     COULD_NOT_PARSE, brief, FALLBACK_QUESTION, FALSE, c.raw, c.log)
    ELSE BriefResult(c.raised, {"brief", "next_question", "is_ready", "raw"}, <<>>,
                     JObj([k \in BriefKeySet |->
                             IF isinstance_dict(dict_get(c.obj, <<"brief">>))
                                  /\ k \in DOMAIN dict_get(c.obj, <<"brief">>).m
                             THEN coerce_brief(dict_get(c.obj, <<"brief">>)).m[k]
                             ELSE brief.m[k]]),
                     turn_next_question(c.obj),
                     PyBool(dict_get(c.obj, <<"is_ready">>)), c.raw, c.log)

\* The return statements of brief_builder_turn after the provider call c;
\* brief is the coerced current brief.
brief_builder_turn_return(brief, c) ==
    IF ~isinstance_dict(c.obj)
    THEN BriefResult(c.raised, {"error", "brief", "next_question", "is_ready", "raw"},
                     COULD_NOT_PARSE, brief, FALLBACK_QUESTION, FALSE, c.raw, c.log)
    ELSE BriefResult(c.raised, {"brief", "next_question", "is_ready", "raw"}, <<>>,
                     coerce_brief(dict_get(c.obj, <<"brief">>)),
                     turn_next_question(c.obj),
                     PyBool(dict_get(c.obj, <<"is_ready">>)), c.raw, c.log)

brief_builder_turn(chat_history, current_brief, provider, openai_model, gemini_model, copy_type, length_choice, country, s, og, oc) ==
    LET brief == coerce_brief(current_brief)
    IN  brief_builder_turn_return(brief,
            _provider_call_json(provider, openai_model, gemini_model, TURN_SYSTEM,
                TurnPrompt(chat_history, brief, copy_type, length_choice, country),
                TURN_TEMPERATURE, TURN_MAX_TOKENS, s, og, oc))

(***************************************************************************)
(* The copywriter page (pages/06_Write_campaign_assets.py): brief fields   *)
(* in the session, the brief chat, and the two engine calls.               *)
(***************************************************************************)
_safe_str(x) == IF x # JNull THEN JStr(strip(PyStr(x))) ELSE JStr(<<>>)

\* _apply_extracted_brief_to_state(brief): the new widget values.
_apply_extracted_brief_to_state(brief) ==
    [k \in BriefKeySet |-> _safe_str(dict_get(brief, k)).s]

\* The current_brief dict the page builds from the widget values.
CurrentBrief(sess) == JObj([k \in BriefKeySet |-> JStr(sess[k])])

EmptySession == [k \in BriefKeySet |-> <<>>]

OPENING_PROMPT == <<"Tell me what you are promoting and who it is for.">>
ANYTHING_ELSE == <<"Anything else that must be included?">>
READY_MESSAGE == <<"Ready. You can generate copy now, or review/edit the brief below.">>

NoBriefCall ==
    [fn |-> "idle", current |-> JNull,
     ret |-> BriefResult(FALSE, {}, <<>>, JNull, <<>>, FALSE, <<>>, <<>>)]

InitCoerce0 == /\ coerceIn = JNull
               /\ coerceOut = [done |-> FALSE, val |-> JNull]
               /\ coerceTwice = [done |-> FALSE, val |-> JNull]

InitBrief0 == /\ session = EmptySession
              /\ chat = <<>>
              /\ chatReady = FALSE
              /\ briefCall = NoBriefCall

(***************************************************************************)
(* engines/personas.py and engines/audience.py: personas, word-based       *)
(* truncation, the local risk-flag scan and the prompt builders of the     *)
(* focus-group debate.  A word is a maximal run of non-blank atoms.        *)
(***************************************************************************)
\* Persona.name: str(core.get("name") or "Unknown").
PersonaName(p) ==
    IF PyBool(dict_get(p.core, <<"name">>)) THEN PyStr(dict_get(p.core, <<"name">>))
    ELSE <<"Unknown">>

_ensure_dict(x) == IF x.t = "obj" THEN x ELSE JObj(<<>>)
_ensure_list(x) == IF x.t = "arr" THEN x.a ELSE <<>>

\* a[:n] for n >= 0.
Prefix(a, n) == IF Len(a) <= n THEN a ELSE SubSeq(a, 1, n)

\* words[:n] of truncate_words: a negative n drops the last -n words.
SlicePrefix(a, n) ==
    IF n >= 0 THEN Prefix(a, n)
    ELSE IF Len(a) + n <= 0 THEN <<>> ELSE SubSeq(a, 1, Len(a) + n)

\* sep.join(parts[lo..hi]), by halves so that long lists stay shallow.
RECURSIVE join_range(_, _, _, _)
join_range(parts, sep, lo, hi) ==
    IF lo > hi THEN <<>>
    ELSE IF lo = hi THEN parts[lo]
    ELSE join_range(parts, sep, lo, (lo + hi) \div 2) \o sep
            \o join_range(parts, sep, (lo + hi) \div 2 + 1, hi)

\* sep.join(parts), parts a sequence of texts.
join(parts, sep) == join_range(parts, sep, 1, Len(parts))

\* A run of non-blank atoms starts at i / the index of its last atom.
word_start(t, i) == t[i] # SP /\ (i = 1 \/ t[i - 1] = SP)
word_end(t, i) ==
    CHOOSE j \in i..Len(t) :
        /\ j = Len(t) \/ t[j + 1] = SP
        /\ \A k \in i..j : t[k] # SP

\* The words that start in t[lo..hi], in order, by halves.
RECURSIVE words_from(_, _, _)
words_from(t, lo, hi) ==
    IF lo > hi THEN <<>>
    ELSE IF lo = hi
    THEN IF word_start(t, lo) THEN <<SubSeq(t, lo, word_end(t, lo))>> ELSE <<>>
    ELSE words_from(t, lo, (lo + hi) \div 2) \o words_from(t, (lo + hi) \div 2 + 1, hi)

\* re.findall(r"\S+", text): the maximal runs of non-blank atoms.
findall_words(t) == words_from(t, 1, Len(t))

word_count(text) == IF text = <<>> THEN 0 ELSE Len(findall_words(text))

\* int(wc * 1.45).
estimate_tokens(text) == (word_count(text) * 145) \div 100

\* Variant of truncate_words that counts atoms of the text instead of words.
truncate_words_by_atoms(text, max_words) ==
    IF text = <<>> THEN <<>>
    ELSE IF Len(findall_words(text)) <= max_words THEN text
    ELSE strip(SlicePrefix(text, max_words))

truncate_words(text, max_words) ==
    IF text = <<>> THEN <<>>
    ELSE IF Len(findall_words(text)) <= max_words THEN text
    ELSE strip(join(SlicePrefix(findall_words(text), max_words), <<SP>>))

\* str.lower() of a word of the creative.
lower_word(w) ==
    CASE w = "Guaranteed" -> "guaranteed"
      [] w = "ALWAYS" -> "always"
      [] w = "Buy" -> "buy"
      [] OTHER -> w

\* Variant of lower_text that keeps the letter case.
lower_text_as_is(t) == t

lower_text(t) == [i \in 1..Len(t) |-> lower_word(t[i])]

\* tok in t: the phrase occurs in the text.
contains(t, tok) ==
    \E i \in 1..(Len(t) - Len(tok) + 1) : \A k \in 1..Len(tok) : t[i + k - 1] = tok[k]

\* The four categories of claim_risk_flags, in the order of the patterns
\* dict, each with its phrases.
RiskPatterns ==
    << [label |-> "Guaranteed / certainty language",
        toks |-> {<<"guaranteed">>, <<"can't", SP, "lose">>, <<"sure", SP, "thing">>,
                  <<"no", SP, "risk">>, <<"risk-free">>, <<"100%">>}],
       [label |-> "Urgency pressure",
        toks |-> {<<"urgent">>, <<"act", SP, "now">>, <<"limited", SP, "time">>,
                  <<"today", SP, "only">>, <<"last", SP, "chance">>,
                  <<"ends", SP, "tonight">>, <<"flash", SP, "sale">>, <<"expires">>}],
       [label |-> "Implied future performance",
        toks |-> {<<"will", SP, "double">>, <<"will", SP, "triple">>,
                  <<"can't", SP, "miss">>, <<"next", SP, "nvidia">>,
                  <<"take", SP, "off", SP, "explosively">>}],
       [label |-> "Overly absolute claims",
        toks |-> {<<"always">>, <<"never">>, <<"everyone">>, <<"no", SP, "one">>}] >>

RECURSIVE risk_hits(_, _)
risk_hits(t, patterns) ==
    IF patterns = <<>> THEN <<>>
    ELSE (IF \E tok \in Head(patterns).toks : contains(t, tok)
          THEN <<Head(patterns).label>> ELSE <<>>)
            \o risk_hits(t, Tail(patterns))

claim_risk_flags(text) ==
    IF text = <<>> \/ strip(text) = <<>> THEN <<>>
    ELSE risk_hits(lower_text(text), RiskPatterns)

brief_extraction_prompt(copy_type, text) ==
    <<"You are a senior conversion strategist. Extract a structured brief from the marketing creative.",
      "COPY TYPE:", copy_type, "CREATIVE (verbatim):">> \o text
        \o <<"Return ONLY a single JSON object (no markdown, no commentary) with this structure:",
             "Rules:">>

\* _clip(s, n) of summarize_brief_for_personas; lengths count atoms.
CLIP_DEFAULT == 140
CLIP_ITEM == 90
MAX_CLAIMS == 4
MAX_MISSING == 3

_clip(s, n) ==
    IF Len(strip(s)) <= n THEN strip(s)
    ELSE rstrip(SubSeq(strip(s), 1, n - 1)) \o <<"...">>

\* One "label: value" line for a truthy scalar field of the brief.
summary_line(brief, key, label) ==
    IF PyBool(dict_get(brief, key))
    THEN << <<label>> \o _clip(PyStr(dict_get(brief, key)), CLIP_DEFAULT) >>
    ELSE <<>>

\* One "label: a; b; c" line for the first n items of a list field.
summary_list_line(brief, key, label, n) ==
    IF Prefix(_ensure_list(dict_get(brief, key)), n) = <<>> THEN <<>>
    ELSE << <<label>> \o join([i \in 1..Len(Prefix(_ensure_list(dict_get(brief, key)), n)) |->
                                  _clip(PyStr(_ensure_list(dict_get(brief, key))[i]), CLIP_ITEM)],
                               <<";", SP>>) >>

summary_lines(brief) ==
    summary_line(brief, <<"primary_promise">>, "Promise:")
        \o summary_line(brief, <<"mechanism_or_angle">>, "Angle:")
        \o summary_line(brief, <<"offer_summary">>, "Offer:")
        \o summary_line(brief, <<"cta">>, "CTA:")
        \o summary_list_line(brief, <<"key_claims">>, "Claims:", MAX_CLAIMS)
        \o summary_list_line(brief, <<"missing_proof">>, "Missing proof:", MAX_MISSING)

bullet_lines(lines) == [i \in 1..Len(lines) |-> <<"-", SP>> \o lines[i]]

summarize_brief_for_personas(brief) ==
    IF ~isinstance_dict(brief) THEN <<>>
    ELSE join(bullet_lines(summary_lines(brief)), <<"\n">>)

participant_task(copy_type) ==
    CASE copy_type = "Headline" ->
            <<"Answer in 4 short bullets:", "1) Click or ignore (and why)",
              "2) What you think this really means (implied promise)",
              "3) Trust reaction (what feels credible / not)",
              "4) One rewrite suggestion (<= 12 words)">>
      [] copy_type = "Email" ->
            <<"Answer in 4 short bullets:", "1) Open or ignore (and why)",
              "2) Trust/credibility reaction", "3) Biggest question holding you back",
              "4) One change that improves it">>
      [] copy_type = "Sales Page" ->
            <<"Answer in 5 short bullets:", "1) Would you keep reading or bounce (and where)",
              "2) Strongest section (and why)", "3) Weakest section (and why)",
              "4) Proof you need before believing", "5) One concrete fix">>
      [] OTHER ->
            <<"Answer in 4 short bullets:", "1) What grabs you (if anything)",
              "2) What feels off / unclear", "3) What proof you need",
              "4) One improvement">>

moderator_constraints(copy_type) ==
    CASE copy_type = "Headline" ->
            <<"Constraints:", "- Provide 10 headlines. Each <= 12 words.",
              "- Make the angle specific early (avoid pure mystery).",
              "- Avoid guarantees or performance promises.">>
      [] copy_type = "Email" ->
            <<"Constraints:", "- Subject <= 70 characters.", "- Preheader <= 110 characters.",
              "- Body 150-250 words, clear and credible (AU tone).",
              "- Avoid guarantees or performance promises.">>
      [] copy_type = "Sales Page" ->
            <<"Constraints:", "- Focus on rewriting key blocks (not the entire page).",
              "- Bullets: 5-7. Offer stack: 3-6 items.",
              "- Avoid guarantees or performance promises.">>
      [] OTHER ->
            <<"Constraints:", "- Keep rewrite concise and concrete.",
              "- Avoid guarantees or performance promises.">>

moderator_prompt(copy_type, transcript, creative_for_moderator, brief_json) ==
    <<"You are a legendary Direct Response Copywriter (Motley Fool style) acting as a focus-group moderator.",
      "COPY TYPE:", copy_type, "TRANSCRIPT:">> \o transcript
        \o <<"CREATIVE:">> \o creative_for_moderator
        \o (IF isinstance_dict(brief_json) /\ PyBool(brief_json)
            THEN <<"EXTRACTED BRIEF (JSON):">> \o Serialize(brief_json) ELSE <<>>)
        \o <<"OUTPUT:",
             "Return ONLY a single JSON object (no markdown, no commentary) with this structure:">>
        \o moderator_constraints(copy_type)

(***************************************************************************)
(* engines/audience.py: focus_group_debate.  The function makes its        *)
(* provider calls one after the other; fgPc is the call it is waiting on.  *)
(***************************************************************************)
PARTICIPANT_CAP_WORDS == 1500
MODERATOR_CAP_WORDS == 4500
BRIEF_EXTRACT_TEMPERATURE == 2
OPENING_TEMPERATURE == 8
REBUTTAL_TEMPERATURE == 7
MAX_VALUES == 5
MAX_GOALS == 4

\* (x or ""): a str argument that may be None.
or_empty(x) == IF PyBool(x) THEN x.s ELSE <<>>

\* Variant of trimmed_creative that does not trim.
trimmed_creative_untrimmed(creative_text) == or_empty(creative_text)

\* creative_text = (creative_text or "").strip().
trimmed_creative(creative_text) == strip(or_empty(creative_text))

_excerpt(full_text, participant_scope, participant_n_words, participant_custom_excerpt) ==
    IF participant_scope = "Custom excerpt" /\ strip(participant_custom_excerpt) # <<>>
    THEN truncate_words(strip(participant_custom_excerpt), PARTICIPANT_CAP_WORDS)
    ELSE IF participant_scope = "Full text (capped)"
    THEN truncate_words(full_text, PARTICIPANT_CAP_WORDS)
    ELSE truncate_words(full_text, participant_n_words)

base_instruction ==
    <<"IMPORTANT: This is a simulation for marketing research.",
      "You are roleplaying a specific persona. Do NOT sound like a generic AI.",
      "Do not give financial advice; focus on reactions to marketing, credibility, and decision triggers.",
      "Be specific. Avoid repeating the same template in every turn.">>

\* d.get(k, default).
dict_get_default(d, k, default) == IF k \in DOMAIN d.m THEN d.m[k] ELSE default

\* sep.join(a[:n]) of a persona list; its items are strings.
join_items(a, n, sep) ==
    join([i \in 1..Len(Prefix(a, n)) |-> a[i].s], sep)

stance_block(stance) ==
    IF stance = "Believer"
    THEN <<"You WANT the message to be true. You focus on upside, possibility, and emotional appeal.",
           "You defend the message against skepticism, but you still sound like a real person.">>
    ELSE <<"You are allergic to hype. You look for missing specifics, credibility gaps, and implied claims.",
           "You call out anything that sounds too good to be true.">>

_role_prompt(p, stance) ==
    <<"ROLE: You are">> \o PyStr(dict_get(p.core, <<"name">>))
        \o <<", a">> \o PyStr(dict_get(p.core, <<"age">>))
        \o <<"-year-old">> \o PyStr(dict_get(p.core, <<"occupation">>))
        \o <<"BIO:">> \o PyStr(dict_get_default(p.core, <<"narrative">>, JStr(<<>>)))
        \o <<"VALUES:">>
        \o join_items(_ensure_list(dict_get(p.core, <<"values">>)), MAX_VALUES, <<",", SP>>)
        \o <<"GOALS:">>
        \o join_items(_ensure_list(dict_get(p.core, <<"goals">>)), MAX_GOALS, <<";", SP>>)
        \o <<"CONCERNS:">>
        \o join_items(_ensure_list(dict_get(p.core, <<"concerns">>)), MAX_GOALS, <<";", SP>>)
        \o <<"RISK TOLERANCE:">>
        \o PyStr(dict_get_default(_ensure_dict(dict_get(p.core, <<"behavioural_traits">>)),
                                  <<"risk_tolerance">>, JStr(<<"Unknown">>)))
        \o <<"STANCE:", stance>> \o stance_block(stance)

persona_brief(brief_summary) ==
    IF brief_summary # <<>> THEN <<"BRIEF SUMMARY (for context):">> \o brief_summary
    ELSE <<>>

\* The system message of a debate turn.
turn_system(p, stance) == Message("system", base_instruction \o _role_prompt(p, stance))

believer_opening_messages(believer, copy_type, excerpt, brief_summary) ==
    << turn_system(believer, "Believer"),
       Message("user",
           <<"You are reacting to", copy_type, "creative.", "CREATIVE (excerpt):">>
               \o excerpt \o persona_brief(brief_summary)
               \o <<"TASK:">> \o participant_task(copy_type)) >>

\* Variant of skeptic_response_messages that does not quote the Believer.
skeptic_response_messages_unquoted(skeptic, copy_type, excerpt, brief_summary, msg_a) ==
    << turn_system(skeptic, "Skeptic"),
       Message("user",
           <<"You are reacting to the same", copy_type, "creative.", "CREATIVE (excerpt):">>
               \o excerpt \o persona_brief(brief_summary)
               \o <<"TASK:">> \o participant_task(copy_type)) >>

skeptic_response_messages(skeptic, copy_type, excerpt, brief_summary, msg_a) ==
    << turn_system(skeptic, "Skeptic"),
       Message("user",
           <<"You are reacting to the same", copy_type, "creative.", "CREATIVE (excerpt):">>
               \o excerpt \o persona_brief(brief_summary)
               \o <<"The Believer said:">> \o msg_a
               \o <<"Respond directly to their points. Don't restate the creative.",
                    "Call out what feels manipulative or unclear.", "TASK:">>
               \o participant_task(copy_type)) >>

believer_rebuttal_messages(believer, msg_b) ==
    << turn_system(believer, "Believer"),
       Message("user",
           <<"Reply to the Skeptic in 5-6 sentences max.", "- Acknowledge 1 fair critique",
             "- Defend 1 element that still excites you",
             "- Suggest 1 specific improvement that would keep the upside but build trust",
             "Skeptic said:">> \o msg_b) >>

skeptic_counter_messages(skeptic, msg_a2) ==
    << turn_system(skeptic, "Skeptic"),
       Message("user",
           <<"Counter the Believer in 5-6 sentences max.",
             "- Say what specific proof/detail would convert you",
             "- Name the single most damaging phrase or move in the creative",
             "- Provide one rewrite principle (not a full rewrite)",
             "Believer said:">> \o msg_a2) >>

DebateTurn(p, role, text) ==
    [name |-> PersonaName(p), uid |-> p.uid, role |-> role, text |-> text]

\* Variant of debate_turns that leaves out the turns whose text is a provider
\* error.
debate_turns_without_errors(believer, skeptic, msg_a, msg_b, msg_a2, msg_b2) ==
    SelectSeq(<< DebateTurn(believer, "Believer", msg_a),
                 DebateTurn(skeptic, "Skeptic", msg_b),
                 DebateTurn(believer, "Believer", msg_a2),
                 DebateTurn(skeptic, "Skeptic", msg_b2) >>,
              LAMBDA x : ~startswith(x.text, <<ERR>>))

debate_turns(believer, skeptic, msg_a, msg_b, msg_a2, msg_b2) ==
    << DebateTurn(believer, "Believer", msg_a),
       DebateTurn(skeptic, "Skeptic", msg_b),
       DebateTurn(believer, "Believer", msg_a2),
       DebateTurn(skeptic, "Skeptic", msg_b2) >>

transcript_of(turns) ==
    join([i \in 1..Len(turns) |->
             turns[i].name \o <<"(", turns[i].role, "):">> \o turns[i].text],
         <<"\n">>)

\* The provider attempts of one step of the debate.
StepLog(step, log) == [i \in 1..Len(log) |-> [step |-> step, attempt |-> log[i]]]

NoPersona == [uid |-> "", core |-> JObj(<<>>)]

NoArgs ==
    [believer |-> NoPersona, skeptic |-> NoPersona, creative_text |-> JStr(<<>>),
     copy_type |-> "Email", participant_scope |-> "First N words",
     participant_n_words |-> 450, participant_custom_excerpt |-> <<>>,
     extract_brief |-> TRUE, brief_model |-> DEFAULT_OPENAI_FAST_MODEL,
     model |-> DEFAULT_OPENAI_MODEL, moderator_model |-> DEFAULT_GEMINI_MODEL]

NoLocals ==
    [creative_text |-> <<>>, excerpt |-> <<>>, creative_for_moderator |-> <<>>,
     brief_raw |-> <<>>, brief_json |-> JNull, brief_summary |-> <<>>,
     msg_a |-> <<>>, msg_b |-> <<>>, msg_a2 |-> <<>>, msg_b2 |-> <<>>]

\* The mapping focus_group_debate returns (created_at, a clock reading, is
\* left out); keys are the keys the mapping has.
NoResult ==
    [raised |-> FALSE, keys |-> {}, error |-> <<>>, copy_type |-> "",
     creative_full |-> <<>>, excerpt |-> <<>>, brief_raw |-> <<>>, brief_json |-> JNull,
     debate_turns |-> <<>>, transcript |-> <<>>, moderator_raw |-> <<>>,
     moderator_json |-> JNull, risk_flags_detected |-> <<>>, token_estimate |-> 0]

NO_CREATIVE == <<"No creative provided">>
NoCreativeResult == [NoResult EXCEPT !.keys = {"error"}, !.error = NO_CREATIVE]
RaisedResult == [NoResult EXCEPT !.raised = TRUE]

DebateResultKeys ==
    {"created_at", "copy_type", "creative_full", "excerpt", "brief_raw", "brief_json",
     "debate_turns", "transcript", "moderator_raw", "moderator_json",
     "risk_flags_detected", "token_estimate"}

\* The return statement of focus_group_debate.
DebateResult(args, loc, turns, mod_raw, mod_json) ==
    [raised |-> FALSE, keys |-> DebateResultKeys, error |-> <<>>,
     copy_type |-> args.copy_type, creative_full |-> loc.creative_text,
     excerpt |-> loc.excerpt, brief_raw |-> loc.brief_raw, brief_json |-> loc.brief_json,
     debate_turns |-> turns, transcript |-> transcript_of(turns),
     moderator_raw |-> mod_raw, moderator_json |-> mod_json,
     risk_flags_detected |-> claim_risk_flags(loc.creative_text),
     token_estimate |-> estimate_tokens(loc.creative_text)]

InitDebate0 == /\ fgArgs = NoArgs
               /\ fgPc = "idle"
               /\ fgLocals = NoLocals
               /\ fgCalls = <<>>
               /\ fgResult = NoResult

(***************************************************************************)
(* engines/audience.py: test_headlines and its prompt; and the run handler *)
(* of pages/04_Test_headlines.py, which tests the headlines with one       *)
(* persona after the other and aggregates a score from the top_3 ranks.    *)
(***************************************************************************)
DigitVal(c) ==
    CASE c = "1" -> 1 [] c = "2" -> 2 [] c = "3" -> 3 [] c = "4" -> 4 [] OTHER -> 5

\* The number a run of digits denotes.
RECURSIVE IntVal(_)
IntVal(d) ==
    IF d = <<>> THEN 0
    ELSE 10 * IntVal(SubSeq(d, 1, Len(d) - 1)) + DigitVal(d[Len(d)])

IntOk(n) == [ok |-> TRUE, val |-> n]
IntFail == [ok |-> FALSE, val |-> 0]

\* int(v): ok is FALSE when it raises (None, a list, a dict, a string that
\* is not a number).
py_int(v) ==
    CASE v.t = "num" -> IntOk(IntVal(v.d))
      [] v.t = "true" -> IntOk(1)
      [] v.t = "false" -> IntOk(0)
      [] v.t = "str" ->
            IF strip(v.s) # <<>> /\ \A i \in 1..Len(strip(v.s)) : strip(v.s)[i] \in Digits
            THEN IntOk(IntVal(strip(v.s))) ELSE IntFail
      [] OTHER -> IntFail

MAX_SOURCES == 6

build_persona_system_prompt(core) ==
    <<"You are">> \o PyStr(dict_get_default(core, <<"name">>, JStr(<<"Unknown">>)))
        \o <<", a">> \o PyStr(dict_get_default(core, <<"age">>, JStr(<<>>)))
        \o <<"-year-old">> \o PyStr(dict_get_default(core, <<"occupation">>, JStr(<<>>)))
        \o <<"based in">> \o PyStr(dict_get_default(core, <<"location">>, JStr(<<>>)))
        \o <<". Income: $">> \o PyStr(dict_get_default(core, <<"income">>, JStr(<<>>)))
        \o <<".", "\n", "Bio:">> \o PyStr(dict_get_default(core, <<"narrative">>, JStr(<<>>)))
        \o <<"\n", "Values:">>
        \o join_items(_ensure_list(dict_get(core, <<"values">>)), MAX_VALUES, <<",", SP>>)
        \o <<"\n", "Goals:">>
        \o join_items(_ensure_list(dict_get(core, <<"goals">>)), MAX_GOALS, <<";", SP>>)
        \o <<"\n", "Concerns:">>
        \o join_items(_ensure_list(dict_get(core, <<"concerns">>)), MAX_GOALS, <<";", SP>>)
        \o <<"\n", "Decision style:">>
        \o PyStr(dict_get_default(core, <<"decision_making">>, JStr(<<>>)))
        \o <<"\n", "Investing:">>
        \o PyStr(dict_get_default(_ensure_dict(dict_get(core, <<"behavioural_traits">>)),
                                  <<"investment_experience">>, JStr(<<"Unknown">>)))
        \o <<". Risk tolerance:">>
        \o PyStr(dict_get_default(_ensure_dict(dict_get(core, <<"behavioural_traits">>)),
                                  <<"risk_tolerance">>, JStr(<<"Unknown">>)))
        \o <<".", "\n", "Information sources:">>
        \o join_items(_ensure_list(dict_get(_ensure_dict(dict_get(core, <<"behavioural_traits">>)),
                                            <<"information_sources">>)),
                      MAX_SOURCES, <<",", SP>>)
        \o <<"\n", "Preferred channels:">>
        \o join_items(_ensure_list(dict_get(_ensure_dict(dict_get(core, <<"behavioural_traits">>)),
                                            <<"preferred_channels">>)),
                      MAX_SOURCES, <<",", SP>>)
        \o <<"\n", "Preferred formats:">>
        \o join_items(_ensure_list(dict_get(_ensure_dict(dict_get(core, <<"content_consumption">>)),
                                            <<"preferred_formats">>)),
                      MAX_SOURCES, <<",", SP>>)
        \o <<"\n", "\n",
             "Rules: Respond in first person, in-character, and grounded in your constraints.",
             "Don't give financial advice; focus on reactions to marketing, credibility, and decision triggers.",
             "Keep answers under ~140 words unless asked for depth.">>

\* The numbered lines of h_block: the non-blank headlines, each with the
\* number of its position in the list.
RECURSIVE h_lines(_, _)
h_lines(headlines, i) ==
    IF i > Len(headlines) THEN <<>>
    ELSE (IF strip(headlines[i]) # <<>>
          THEN << <<ToString(i), ".", SP>> \o strip(headlines[i]) >> ELSE <<>>)
            \o h_lines(headlines, i + 1)

headline_test_prompt(persona, headlines, context) ==
    <<"You are roleplaying this investor persona:">>
        \o build_persona_system_prompt(persona.core)
        \o <<"Task:", "- Evaluate the headlines as marketing headlines for an investing brand.",
             "- Pick the top 3 you would click.",
             "- Explain what each headline *implies* (promise/angle) and whether you trust it.",
             "- Suggest improved rewrites for the weakest headlines.",
             "Context (optional):">>
        \o strip(context)
        \o <<"Headlines:">> \o join(h_lines(headlines, 1), <<"\n">>)
        \o <<"Return ONLY JSON (no markdown) in this schema:">>

HEADLINE_TEMPERATURE == 4
COULD_NOT_PARSE_JSON == <<"Could not parse JSON">>

\* The return statement of test_headlines: parsed or {"error": ..., "raw": raw}.
\* extracted is what extract_json_object handed back, log the provider
\* attempts of the call.
test_headlines_return(r, x) ==
    [raised |-> r.raised \/ x.raised,
     val |-> IF PyBool(x.val) THEN x.val
             ELSE JObj(<<"error">> :> JStr(COULD_NOT_PARSE_JSON)
                       @@ <<"raw">> :> JStr(r.text)),
     raw |-> r.text, extracted |-> x.val, log |-> r.log]

test_headlines_call(s, persona, headlines, context, model, oc) ==
    query_openai(s, <<Message("user", headline_test_prompt(persona, headlines, context))>>,
                 model, HEADLINE_TEMPERATURE, None, None, oc)

test_headlines(s, persona, headlines, context, model, oc) ==
    test_headlines_return(
        test_headlines_call(s, persona, headlines, context, model, oc),
        extract_json_object(test_headlines_call(s, persona, headlines, context, model, oc).text))

\* str.strip(c) for one character c.
RECURSIVE lstrip_char(_, _)
lstrip_char(t, c) == IF t # <<>> /\ Head(t) = c THEN lstrip_char(Tail(t), c) ELSE t

RECURSIVE rstrip_char(_, _)
rstrip_char(t, c) ==
    IF t # <<>> /\ t[Len(t)] = c THEN rstrip_char(SubSeq(t, 1, Len(t) - 1), c) ELSE t

strip_char(t, c) == rstrip_char(lstrip_char(t, c), c)

\* The bullet character U+2022, one atom.
BULLET == "<bullet>"

\* re.sub of the list prefix ("1) ", "1. ", "- ", a bullet), on a stripped s.
remove_list_prefix(t) ==
    IF t = <<>> THEN t
    ELSE IF Head(t) \in {"-", BULLET, "*"} THEN lstrip(Tail(t))
    ELSE IF /\ digitsEnd(t, 1) > 1
            /\ skipws(t, digitsEnd(t, 1)) <= Len(t)
            /\ t[skipws(t, digitsEnd(t, 1))] \in {".", ")"}
         THEN lstrip(SubSeq(t, skipws(t, digitsEnd(t, 1)) + 1, Len(t)))
    ELSE t

_clean_headline(s) ==
    strip(strip_char(strip_char(strip(strip(remove_list_prefix(strip(s)))), QT), "'"))

\* [_clean_headline(h) for h in lines if _clean_headline(h)].
cleaned_lines(lines) ==
    SelectSeq([i \in 1..Len(lines) |-> _clean_headline(lines[i])], LAMBDA h : h # <<>>)

RECURSIVE dedupe_from(_, _, _)
dedupe_from(items, seen, out) ==
    IF items = <<>> THEN out
    ELSE IF strip(lower_text(Head(items))) = <<>> \/ strip(lower_text(Head(items))) \in seen
         THEN dedupe_from(Tail(items), seen, out)
    ELSE dedupe_from(Tail(items), seen \cup {strip(lower_text(Head(items)))},
                     Append(out, strip(Head(items))))

_dedupe_preserve_order(items) == dedupe_from(items, {}, <<>>)

REVIEW_NOTE ==
    <<"Note: Only ONE headline is provided. Treat this as a qualitative review of that single headline.">>

\* llm_context of the run handler.
llm_context_of(context, mode) ==
    IF mode # "review" THEN context
    ELSE IF strip(context) # <<>> THEN strip(context) \o <<"\n", "\n">> \o REVIEW_NOTE
    ELSE REVIEW_NOTE

\* (r.get("output") or {}).get("top_3") or [].
top_3_of(output) ==
    IF ~PyBool(output) THEN JArr(<<>>)
    ELSE IF PyBool(dict_get(output, <<"top_3">>)) THEN dict_get(output, <<"top_3">>)
    ELSE JArr(<<>>)

\* for item in top_3: a list gives its items, a string its characters, a
\* dict its keys; a number or True is not iterable and the loop raises.
iter_items(v) ==
    CASE v.t = "arr" -> [ok |-> TRUE, items |-> v.a]
      [] v.t = "str" -> [ok |-> TRUE, items |-> [i \in 1..Len(v.s) |-> JStr(<<v.s[i]>>)]]
      [] v.t = "obj" -> [ok |-> TRUE, items |-> <<>>]
      [] OTHER -> [ok |-> FALSE, items |-> <<>>]

max0(x) == IF x > 0 THEN x ELSE 0

FIRST_UNRANKED == 4

\* The body of the try block for one item of top_3: the headline it adds
\* to and the points, or idx = 0 when it adds nothing (an exception, or an
\* index outside 1..n).
item_points(item, n) ==
    IF item.t # "obj" THEN [idx |-> 0, pts |-> 0]
    ELSE IF ~py_int(dict_get(item, <<"headline_index">>)).ok THEN [idx |-> 0, pts |-> 0]
    ELSE IF ~py_int(dict_get(item, <<"rank">>)).ok THEN [idx |-> 0, pts |-> 0]
    ELSE IF /\ 1 <= py_int(dict_get(item, <<"headline_index">>)).val
            /\ py_int(dict_get(item, <<"headline_index">>)).val <= n
         THEN [idx |-> py_int(dict_get(item, <<"headline_index">>)).val,
               pts |-> max0(FIRST_UNRANKED - py_int(dict_get(item, <<"rank">>)).val)]
    ELSE [idx |-> 0, pts |-> 0]

add_points(scores, p) ==
    IF p.idx = 0 THEN scores ELSE [scores EXCEPT ![p.idx] = @ + p.pts]

RECURSIVE add_items(_, _, _)
add_items(scores, items, n) ==
    IF items = <<>> THEN scores
    ELSE add_items(add_points(scores, item_points(Head(items), n)), Tail(items), n)

RECURSIVE add_results(_, _, _)
add_results(scores, results, n) ==
    IF results = <<>> THEN scores
    ELSE add_results(add_items(scores, iter_items(top_3_of(Head(results).output)).items, n),
                     Tail(results), n)

\* scores after the aggregation loop over results.
aggregate_scores(results, n) == add_results([i \in 1..n |-> 0], results, n)

\* The aggregation loop raises: some top_3 is not iterable.
aggregate_raises(results) ==
    \E i \in 1..Len(results) : ~iter_items(top_3_of(results[i].output)).ok

\* Variant of insert_by_score that puts an entry before the entries of
\* equal score.
insert_by_score_before_ties(sorted, kv) ==
    LET k == Cardinality({i \in 1..Len(sorted) : sorted[i][2] > kv[2]})
    IN  SubSeq(sorted, 1, k) \o <<kv>> \o SubSeq(sorted, k + 1, Len(sorted))

\* One step of the stable sort: kv goes after every entry whose score is at
\* least its own.
insert_by_score(sorted, kv) ==
    LET k == Cardinality({i \in 1..Len(sorted) : sorted[i][2] >= kv[2]})
    IN  SubSeq(sorted, 1, k) \o <<kv>> \o SubSeq(sorted, k + 1, Len(sorted))

RECURSIVE sort_items(_, _)
sort_items(items, sorted) ==
    IF items = <<>> THEN sorted
    ELSE sort_items(Tail(items), insert_by_score(sorted, Head(items)))

\* sorted(scores.items(), key=lambda kv: kv[1], reverse=True).
ranked_of(scores) == sort_items([i \in DOMAIN scores |-> <<i, scores[i]>>], <<>>)

\* default_index of the winner radio.
default_index_of(ranked) == IF ranked # <<>> THEN ranked[1][1] - 1 ELSE 0

NoHeadlineArgs ==
    [headlines_raw |-> <<>>, selected |-> <<>>, context |-> <<>>,
     model |-> DEFAULT_OPENAI_FAST_MODEL]
NoHeadlineLocals == [headlines |-> <<>>, mode |-> "", llm_context |-> <<>>]
NoLast ==
    [set |-> FALSE, mode |-> "", headlines |-> <<>>, results |-> <<>>,
     scores |-> <<>>, ranked |-> <<>>, default_index |-> 0]

\* The entry the handler stores in st.session_state["headline_test_last"];
\* scores and ranked are <<>> for None.
HeadlineLast(loc, results) ==
    [set |-> TRUE, mode |-> loc.mode, headlines |-> loc.headlines, results |-> results,
     scores |-> IF loc.mode = "compare"
                THEN aggregate_scores(results, Len(loc.headlines)) ELSE <<>>,
     ranked |-> IF loc.mode = "compare"
                THEN ranked_of(aggregate_scores(results, Len(loc.headlines))) ELSE <<>>,
     default_index |-> 0]

InitHeadline0 == /\ htArgs = NoHeadlineArgs
                 /\ htPc = "idle"
                 /\ htLocals = NoHeadlineLocals
                 /\ htResults = <<>>
                 /\ htLast = NoLast

(***************************************************************************)
(* engines/creative.py: trait rules, copy generation with its plan, and    *)
(* the QA-and-patch loop.  traits is the dict in its order, a sequence of  *)
(* <<name, score>>; a trait configuration is a function from its keys.     *)
(***************************************************************************)
MAX_OUTPUT_TOKENS == 4096

DISCLAIMER_LINE ==
    <<"*Past", SP, "performance", SP, "is", SP, "not", SP, "a", SP, "reliable", SP,
      "indicator", SP, "of", SP, "future", SP, "results.*">>

\* (min_len, max_len) per length bucket; 0 stands for the None of an open
\* bucket.
LENGTH_RULES ==
    ("Short (100-200 words)" :> <<100, 220>>)
        @@ ("Medium (200-500 words)" :> <<200, 550>>)
        @@ ("Long (500-1500 words)" :> <<500, 1600>>)
        @@ ("Extra Long (1500-3000 words)" :> <<1500, 3200>>)
        @@ ("Scrolling Monster (3000+ words)" :> <<3000, 0>>)

\* LENGTH_RULES.get(length_choice, default).
length_rule(length_choice, default) ==
    IF length_choice \in DOMAIN LENGTH_RULES THEN LENGTH_RULES[length_choice] ELSE default

country_rules(country) ==
    CASE country = "Australia" -> "Use Australian English, prices in AUD, reference the ASX."
      [] country = "United Kingdom" -> "Use British English, prices in GBP, reference the FTSE."
      [] country = "Canada" -> "Use Canadian English, prices in CAD, reference the TSX."
      [] country = "United States" ->
            "Use American English, prices in USD, reference the S&P 500."
      [] OTHER -> "Use Australian English."

system_prompt(country) ==
    <<"You are The Motley Fool's senior direct-response copy chief.",
      "- Voice: plain English, optimistic, inclusive, lightly playful but always expert.",
      "- Use Markdown headings (##, ###) and standard '-' bullets for lists.",
      "- Never promise guaranteed returns; keep compliance in mind.",
      "- Return ONLY the requested copy - no meta commentary.",
      country_rules(country),
      "At the very end of the piece, append this italic line (no quotes):">>
        \o DISCLAIMER_LINE

HIGH_THRESHOLD_DEFAULT == 8
LOW_THRESHOLD_DEFAULT == 3

\* cfg.get(k, default).
cfg_get(cfg, k, default) == IF k \in DOMAIN cfg THEN cfg[k] ELSE default

\* Variant of trait_rule whose bands exclude the thresholds themselves.
trait_rule_exclusive(score, cfg) ==
    IF score > cfg_get(cfg, "high_threshold", HIGH_THRESHOLD_DEFAULT)
    THEN <<cfg_get(cfg, "high_rule", <<>>)>>
    ELSE IF score < cfg_get(cfg, "low_threshold", LOW_THRESHOLD_DEFAULT)
    THEN <<cfg_get(cfg, "low_rule", <<>>)>>
    ELSE IF cfg_get(cfg, "mid_rule", <<>>) # <<>> THEN <<cfg_get(cfg, "mid_rule", <<>>)>>
    ELSE <<>>

\* What one pass of the loop of trait_rules appends to out for a trait
\* with a configuration.
trait_rule(score, cfg) ==
    IF score >= cfg_get(cfg, "high_threshold", HIGH_THRESHOLD_DEFAULT)
    THEN <<cfg_get(cfg, "high_rule", <<>>)>>
    ELSE IF score <= cfg_get(cfg, "low_threshold", LOW_THRESHOLD_DEFAULT)
    THEN <<cfg_get(cfg, "low_rule", <<>>)>>
    ELSE IF cfg_get(cfg, "mid_rule", <<>>) # <<>> THEN <<cfg_get(cfg, "mid_rule", <<>>)>>
    ELSE <<>>

\* out after the loop over traits.items().
RECURSIVE trait_rules_out(_, _)
trait_rules_out(traits, trait_cfg) ==
    IF traits = <<>> THEN <<>>
    ELSE (IF Head(traits)[1] \notin DOMAIN trait_cfg THEN <<>>
          ELSE IF DOMAIN trait_cfg[Head(traits)[1]] = {} THEN <<>>
          ELSE trait_rule(Head(traits)[2], trait_cfg[Head(traits)[1]]))
            \o trait_rules_out(Tail(traits), trait_cfg)

trait_rules(traits, trait_cfg) ==
    SelectSeq(trait_rules_out(traits, trait_cfg), LAMBDA x : strip(x) # <<>>)

\* str.strip() of a text that can end or start with newlines.
RECURSIVE strip_ws(_)
strip_ws(t) ==
    IF t # <<>> /\ Head(t) \in {SP, "\n"} THEN strip_ws(Tail(t))
    ELSE IF t # <<>> /\ t[Len(t)] \in {SP, "\n"} THEN strip_ws(SubSeq(t, 1, Len(t) - 1))
    ELSE t

\* (brief.get(k) or "").strip() of a brief of strings.
brief_field(brief, k) ==
    IF PyBool(dict_get(brief, k)) THEN strip(PyStr(dict_get(brief, k))) ELSE <<>>

_line(label, value) ==
    IF strip(value) # <<>> THEN <<"-", SP, label, ":", SP>> \o strip(value) \o <<"\n">>
    ELSE <<>>

offer_parts(brief) ==
    (IF brief_field(brief, <<"offer_price">>) # <<>>
     THEN << <<"Special", SP>> \o brief_field(brief, <<"offer_price">>) >> ELSE <<>>)
        \o (IF brief_field(brief, <<"retail_price">>) # <<>>
            THEN << <<"Retail", SP>> \o brief_field(brief, <<"retail_price">>) >> ELSE <<>>)
        \o (IF brief_field(brief, <<"offer_term">>) # <<>>
            THEN << <<"Term", SP>> \o brief_field(brief, <<"offer_term">>) >> ELSE <<>>)

_offer_line(brief) ==
    IF offer_parts(brief) = <<>> THEN <<>>
    ELSE _line("Offer", join(offer_parts(brief), <<",", SP>>))

_structure_for_copy_type(copy_type) ==
    CASE copy_type = "Email" -> "EMAIL_STRUCT"
      [] copy_type = "Sales Page" -> "SALES_STRUCT"
      [] OTHER -> "ADS_STRUCT"

hard_block_of(hard_list) ==
    IF join(hard_list, <<"\n">>) # <<>>
    THEN <<"Hard Requirements:", "\n">> \o join(hard_list, <<"\n">>) ELSE <<>>

length_block_of(rule) ==
    IF rule[2] # 0
    THEN <<"Write between", ToString(rule[1]), "and", ToString(rule[2]), "words.">>
    ELSE <<"Write at least", ToString(rule[1]), "words.">>

trait_lines(traits) ==
    [i \in 1..Len(traits) |-> <<"-", SP, traits[i][1], ":", SP, ToString(traits[i][2]), "/10">>]

brief_block_of(brief) ==
    IF strip_ws(_line("Hook", brief_field(brief, <<"hook">>))
                    \o _line("Details", brief_field(brief, <<"details">>))
                    \o _offer_line(brief)
                    \o _line("Reports", brief_field(brief, <<"reports">>))
                    \o _line("Stocks to Tease", brief_field(brief, <<"stocks_to_tease">>))
                    \o _line("Quotes/News", brief_field(brief, <<"quotes_news">>))) = <<>>
    THEN <<"- (none provided)">>
    ELSE strip_ws(_line("Hook", brief_field(brief, <<"hook">>))
                    \o _line("Details", brief_field(brief, <<"details">>))
                    \o _offer_line(brief)
                    \o _line("Reports", brief_field(brief, <<"reports">>))
                    \o _line("Stocks to Tease", brief_field(brief, <<"stocks_to_tease">>))
                    \o _line("Quotes/News", brief_field(brief, <<"quotes_news">>)))

\* build_user_prompt without original_copy (the edit block is empty).
build_user_prompt(copy_type, brief, traits, length_choice, trait_cfg) ==
    <<"Linguistic settings:">> \o join(trait_lines(traits), <<"\n">>)
        \o <<"Structure to follow:", _structure_for_copy_type(copy_type)>>
        \o hard_block_of(trait_rules(traits, trait_cfg))
        \o <<"Campaign brief:">> \o brief_block_of(brief)
        \o <<"Length requirement:">>
        \o length_block_of(length_rule(length_choice, LENGTH_RULES["Medium (200-500 words)"]))
        \o <<"IMPORTANT:",
             "- Do not invent fake names, fake doctors, or precise performance numbers unless explicitly provided.",
             "- If you need a number, use a placeholder like [Insert % Return].",
             "- Focus on persuasion psychology without overstating certainty.",
             "Please limit bullet lists to three or fewer and favour full-sentence paragraphs elsewhere.">>

GEMINI_NAMES == {"gemini", "google", "google (gemini)"}

\* _call_provider; provider is "" for None.
_call_provider(s, provider, system, user, openai_model, gemini_model, temperature, expect_json, max_tokens, og, oc) ==
    IF lower(IF provider = "" THEN "OpenAI" ELSE provider) \in GEMINI_NAMES
    THEN query_gemini_chat(s, system, user, gemini_model, temperature, max_tokens,
                           expect_json, og, oc)
    ELSE query_openai(s, <<Message("system", system), Message("user", user)>>,
                      openai_model, temperature,
                      IF expect_json THEN JSON_OBJECT ELSE None, <<max_tokens>>, oc)

GENERATE_TEMPERATURE == 7

generate_user_instr ==
    <<"TASK", "1) Create a concise INTERNAL bullet plan covering:",
      "2) Then write the final copy.",
      "Respond ONLY as valid JSON with exactly two keys:", "\n", "\n">>

\* The literal two-character sequence backslash-n, one atom, and the
\* newline character.
BSN == "\\n"
NL == "\n"

\* copy.replace("\\n", "\n").
unescape_newlines(copy) == [i \in 1..Len(copy) |-> IF copy[i] = BSN THEN NL ELSE copy[i]]

\* parse_json_object(cleaned) or {}.
object_or_empty(x) == IF PyBool(x.val) THEN x.val ELSE JObj(<<>>)

\* str(obj.get(k) or "").strip().
str_field(obj, k) ==
    IF PyBool(dict_get(obj, k)) THEN strip(PyStr(dict_get(obj, k))) ELSE <<>>

\* Variant of fallback_copy that uses the fence-stripped text only.
fallback_copy_cleaned_only(cleaned, raw) == strip(cleaned)

\* (cleaned or raw or "").strip().
fallback_copy(cleaned, raw) == strip(IF cleaned # <<>> THEN cleaned ELSE raw)

copy_of(obj, cleaned, raw) ==
    unescape_newlines(IF str_field(obj, <<"copy">>) # <<>> THEN str_field(obj, <<"copy">>)
                      ELSE fallback_copy(cleaned, raw))

\* The code of generate_copy_with_plan after the provider call, r being
\* what _call_provider returned; parsed is the object parse_json_object
\* found, None if none.
generate_copy_return(r, cleaned, x) ==
    [raised |-> r.raised \/ x.raised, parsed |-> x.val,
     plan |-> str_field(object_or_empty(x), <<"plan">>),
     copy |-> copy_of(object_or_empty(x), cleaned, r.text),
     raw |-> r.text, log |-> r.log]

generate_copy_call(s, a, og, oc) ==
    _call_provider(s, a.provider, system_prompt(a.country),
                   generate_user_instr
                       \o build_user_prompt(a.copy_type, a.brief, a.traits, a.length_choice,
                                            a.trait_cfg),
                   a.openai_model, a.gemini_model, GENERATE_TEMPERATURE, TRUE,
                   MAX_OUTPUT_TOKENS, og, oc)

generate_copy_parsed(r, cleaned) ==
    generate_copy_return(r, cleaned, parse_json_object(cleaned))

generate_copy_with_plan(s, a, og, oc) ==
    generate_copy_parsed(generate_copy_call(s, a, og, oc),
                         sanitize_json_text(generate_copy_call(s, a, og, oc).text))

\* len(text.split()).
len_split(text) ==
    Cardinality({i \in 1..Len(text) : text[i] # SP /\ (i = 1 \/ text[i - 1] = SP)})

\* Variant of half_of that takes the whole minimum.
half_of_whole(min_len) == min_len

\* int(min_len * 0.5) and int(max_len * 1.25).
half_of(min_len) == min_len \div 2

\* Variant of five_quarters_of that rounds up.
five_quarters_of_rounded_up(max_len) == (max_len * 5 + 3) \div 4

five_quarters_of(max_len) == (max_len * 5) \div 4

too_short_issue(wc, min_len) ==
    IF min_len # 0 /\ wc < half_of(min_len)
    THEN << <<"Draft is only", ToString(wc), "words (target min:", ToString(min_len),
              "). Expand significantly.">> >>
    ELSE <<>>

disclaimer_issue(text) ==
    IF ~contains(text, DISCLAIMER_LINE)
    THEN << <<"Disclaimer line is missing or not exact. Append the italic disclaimer at the end.">> >>
    ELSE <<>>

too_long_issue(wc, max_len) ==
    IF max_len # 0 /\ wc > five_quarters_of(max_len)
    THEN << <<"Draft is", ToString(wc), "words (target max:", ToString(max_len),
              "). Tighten to fit the length bucket.">> >>
    ELSE <<>>

\* issues after the fast checks.
qa_issues(text, length_choice) ==
    too_short_issue(len_split(text), length_rule(length_choice, <<0, 0>>)[1])
        \o disclaimer_issue(text)
        \o too_long_issue(len_split(text), length_rule(length_choice, <<0, 0>>)[2])

issues_critique(issues) ==
    join([i \in 1..Len(issues) |-> <<"-", SP>> \o issues[i]], <<"\n">>)

QA_SYSTEM == <<"You are an obsessive editorial QA bot for direct-response copy.">>

critique_user_msg(copy_type, length_choice, hard_list, country, text) ==
    <<"Check the copy for:", "- Structure matches", copy_type,
      "- Hard requirements are satisfied", "- Length fits:", length_choice,
      "- Disclaimer line present exactly:">> \o DISCLAIMER_LINE
        \o <<"- Compliance: no guaranteed outcomes, no invented performance numbers",
             "Hard requirements:">>
        \o (IF join(hard_list, <<"\n">>) # <<>> THEN join(hard_list, <<"\n">>)
            ELSE <<"(none)">>)
        \o <<"TARGET COUNTRY:", country, "Return ONLY:",
             "- \"PASS\" if everything is acceptable",
             "- Otherwise, a short bullet list of fixes (no more than 8 bullets)",
             "--- COPY ---">>
        \o text

CRITIQUE_TEMPERATURE == 2
CRITIQUE_MAX_TOKENS == 1200
PATCH_TEMPERATURE == 4

\* str.upper() of an atom; a text in which "PASS" can occur is spelled
\* letter by letter.
upper_atom(c) ==
    CASE c = "p" -> "P" [] c = "a" -> "A" [] c = "s" -> "S" [] c = "b" -> "B"
      [] c = "y" -> "Y" [] OTHER -> c

upper_text(t) == [i \in 1..Len(t) |-> upper_atom(t[i])]

PASS == <<"P", "A", "S", "S">>

\* Variant of approved that looks for "PASS" in the critique as it is.
approved_case_sensitive(critique, issues) == contains(critique, PASS) /\ issues = <<>>

\* "PASS" in (critique or "").upper() and not issues.
approved(critique, issues) == contains(upper_text(critique), PASS) /\ issues = <<>>

PATCH_SYSTEM == <<"Revise copy to address QA feedback. Output the full revised copy ONLY.">>

patch_user_msg(critique, text) ==
    <<"Apply the fixes below while preserving the overall intent.",
      "- Keep compliance in mind.", "- Do not invent performance numbers.", "FIXES:">>
        \o strip(critique) \o <<"ORIGINAL:">> \o text

QaResult(status, critique, copy) ==
    [raised |-> FALSE, status |-> status, critique |-> critique, copy |-> copy]

\* Variant of patch_return that discards the draft when the patch is blank.
patch_return_discard(patched, critique, text) ==
    IF patched # <<>> THEN QaResult("PATCHED", strip(critique), patched)
    ELSE QaResult("ERROR", strip(critique), <<>>)

\* The return statements after the patch call; patched is the stripped
\* answer.
patch_return(patched, critique, text) ==
    IF patched # <<>> THEN QaResult("PATCHED", strip(critique), patched)
    ELSE QaResult("ERROR", strip(critique), text)

EMPTY_DRAFT == <<"Empty draft">>

\* One _call_provider of qa_and_patch_copy: the step it belongs to and the
\* provider attempts it made.
QaCall(step, r) == [step |-> step, text |-> r.text, log |-> r.log]

NoTraitInput == [traits |-> <<>>, trait_cfg |-> <<>>]
NotApplied == [applied |-> FALSE, rules |-> <<>>]
NoGcCall ==
    [called |-> FALSE, args |-> <<>>,
     ret |-> [raised |-> FALSE, parsed |-> JNull, plan |-> <<>>, copy |-> <<>>,
              raw |-> <<>>, log |-> <<>>]]
NoQaArgs ==
    [draft |-> JNull, copy_type |-> "", country |-> "", length_choice |-> "",
     traits |-> <<>>, trait_cfg |-> <<>>, provider |-> "",
     openai_model |-> DEFAULT_OPENAI_FAST_MODEL, gemini_model |-> DEFAULT_GEMINI_CHEAP_MODEL]
NoQaLocals == [text |-> <<>>, issues |-> <<>>, critique |-> <<>>]
NoQaResult == [raised |-> FALSE, status |-> "", critique |-> <<>>, copy |-> <<>>]

InitCreative0 == /\ trIn = NoTraitInput
                 /\ trOut = NotApplied
                 /\ gcCall = NoGcCall
                 /\ qaArgs = NoQaArgs
                 /\ qaPc = "idle"
                 /\ qaLocals = NoQaLocals
                 /\ qaCalls = <<>>
                 /\ qaResult = NoQaResult

NoExcerptArgs ==
    [creative_text |-> JNull, participant_scope |-> "", participant_n_words |-> 0,
     participant_custom_excerpt |-> <<>>]
NoExcerptOut ==
    [applied |-> FALSE, error |-> FALSE, excerpt |-> <<>>, creative_for_moderator |-> <<>>]
NoTruncation == [applied |-> FALSE, text |-> <<>>]

InitExcerpt0 == /\ exArgs = NoExcerptArgs
                /\ exOut = NoExcerptOut
                /\ twOut = NoTruncation

NoFetchArgs == [urls |-> <<>>, concurrency |-> 1, legacy |-> FALSE]
NoFetchReturn == [returned |-> FALSE, raised |-> FALSE, list |-> <<>>]

InitFetch0 == /\ fmArgs = NoFetchArgs
              /\ fmSem = [value |-> 1, waiters |-> <<>>]
              /\ fmTasks = <<>>
              /\ fmResults = <<>>
              /\ fmReturn = NoFetchReturn

(***************************************************************************)
(* Model texts for the extractor: every atom sequence up to MaxTextLen,    *)
(* and the serialisation of every value up to MaxDepth, bare or wrapped in *)
(* prose and/or a code fence.                                              *)
(***************************************************************************)
MaxTextLen == 3
MaxDepth == 2

JsonAtoms == {"{", "}", "[", "]", ":", ",", QT, "a", "1", "null", FENCE, JSON_WORD, SP}

RawTexts == UNION {[1..k -> JsonAtoms] : k \in 0..MaxTextLen}

StringContents == {<<>>, <<"a">>, <<FENCE>>, <<"{", "}">>, <<"a", FENCE, JSON_WORD>>}
JsonScalars == {JStr(c) : c \in StringContents} \cup {JNum(<<"1">>), JNull, JTrue}
JsonKeys == {<<"a">>}

RECURSIVE JsonValues(_)
JsonValues(d) ==
    IF d = 0 THEN JsonScalars
    ELSE LET sub == JsonValues(d - 1)
         IN  sub \cup {JObj(<<>>), JArr(<<>>)}
                 \cup {JObj(k :> v) : k \in JsonKeys, v \in sub}
                 \cup {JArr(<<v>>) : v \in sub}
                 \cup {JArr(<<JNum(<<"1">>), v>>) : v \in JsonScalars}
                 \cup {JObj(<<"a">> :> v @@ <<"b">> :> JNum(<<"1", "1">>)) :
                          v \in JsonScalars}

\* The JSON text of a value (json.dumps with its default separators).
\* What a model puts before and after the JSON it was asked for: nothing,
\* a code fence, brace-free prose, or both.
Prefixes == {<<>>, <<FENCE, JSON_WORD, SP>>, <<FENCE, SP>>, <<"a", ":", SP>>,
             <<"a", ":", SP, FENCE, JSON_WORD, SP>>}
Suffixes == {<<>>, <<SP, FENCE>>, <<SP, "a">>, <<SP, FENCE, SP, "a">>}

RawOrigin == [kind |-> "raw", val |-> JNull, pre |-> <<>>, post |-> <<>>]
WrappedOrigins ==
    [kind : {"wrapped"}, val : JsonValues(MaxDepth), pre : Prefixes, post : Suffixes]

TextOf(o) == o.pre \o Serialize(o.val) \o o.post

InitJson0 == /\ jsonText = <<>>
             /\ jsonOrigin = RawOrigin
             /\ jsonDone = {}
             /\ jsonParsed = Returned(JNull)
             /\ jsonExtracted = Returned(JNull)

InitJson ==
    /\ InitLLM0 /\ InitCoerce0 /\ InitBrief0 /\ InitDebate0 /\ InitHeadline0 /\ InitCreative0
    /\ InitExcerpt0 /\ InitFetch0
    /\ jsonDone = {}
    /\ jsonParsed = Returned(JNull)
    /\ jsonExtracted = Returned(JNull)
    /\ \/ jsonOrigin = RawOrigin /\ jsonText \in RawTexts
       \/ jsonOrigin \in WrappedOrigins /\ jsonText = TextOf(jsonOrigin)

\* A brief or copy pipeline hands the model text to parse_json_object.
ParseJsonObject ==
    /\ "parse" \notin jsonDone
    /\ jsonParsed' = parse_json_object(jsonText)
    /\ jsonDone' = jsonDone \cup {"parse"}
    /\ UNCHANGED <<llmVars, coerceVars, briefVars, debateVars, jsonText, jsonOrigin, jsonExtracted, headlineVars, creativeVars,
                   excerptVars, fetchVars>>

\* The headline test or the debate hands it to extract_json_object.
ExtractJsonObject ==
    /\ "extract" \notin jsonDone
    /\ jsonExtracted' = extract_json_object(jsonText)
    /\ jsonDone' = jsonDone \cup {"extract"}
    /\ UNCHANGED <<llmVars, coerceVars, briefVars, debateVars, jsonText, jsonOrigin, jsonParsed, headlineVars, creativeVars,
                   excerptVars, fetchVars>>

NextJson == ParseJsonObject \/ ExtractJsonObject

SpecJson == InitJson /\ [][NextJson]_vars

(***************************************************************************)
(* Provider-client specification: any configuration, any request, any      *)
(* outcome of the remote calls.                                            *)
(***************************************************************************)
InitLLM == /\ secrets \in SecretsStates
           /\ llmReq = NoReq
           /\ llmRes = NoRes
           /\ InitJson0 /\ InitCoerce0 /\ InitBrief0 /\ InitDebate0 /\ InitHeadline0 /\ InitCreative0
    /\ InitExcerpt0 /\ InitFetch0

\* A caller invokes query_openai with a system and a user message.
QueryOpenAI ==
    \E sys \in SystemInstructions, usr \in UserPrompts, oc \in Outcomes,
       model \in {DEFAULT_OPENAI_MODEL, DEFAULT_OPENAI_FAST_MODEL},
       json \in BOOLEAN :
        /\ llmReq.entry = "idle"
        /\ llmReq' = [entry |-> "query_openai", system |-> sys, user |-> usr,
                      model |-> model, expect_json |-> json,
                      og |-> NoOutcome, oc |-> oc]
        /\ llmRes' = query_openai(secrets,
                        <<Message("system", sys), Message("user", usr)>>, model,
                        OPENAI_DEFAULT_TEMPERATURE,
                        IF json THEN <<"json_object">> ELSE None, None, oc)
        /\ UNCHANGED <<secrets, jsonVars, coerceVars, briefVars, debateVars, headlineVars, creativeVars,
                   excerptVars, fetchVars>>

\* A caller invokes query_gemini_chat.
QueryGeminiChat ==
    \E sys \in SystemInstructions, usr \in UserPrompts,
       og \in Outcomes, oc \in Outcomes, json \in BOOLEAN :
        /\ llmReq.entry = "idle"
        /\ llmReq' = [entry |-> "query_gemini_chat", system |-> sys, user |-> usr,
                      model |-> DEFAULT_GEMINI_MODEL, expect_json |-> json,
                      og |-> og, oc |-> oc]
        /\ llmRes' = query_gemini_chat(secrets, sys, usr, DEFAULT_GEMINI_MODEL,
                        OPENAI_DEFAULT_TEMPERATURE, GEMINI_DEFAULT_MAX_OUTPUT_TOKENS,
                        json, og, oc)
        /\ UNCHANGED <<secrets, jsonVars, coerceVars, briefVars, debateVars, headlineVars, creativeVars,
                   excerptVars, fetchVars>>

\* The caller has consumed the returned text; the next call may start
\* (execution is synchronous: one provider-client call at a time).
LLMReturn ==
    /\ llmReq.entry # "idle"
    /\ llmReq' = NoReq
    /\ llmRes' = NoRes
    /\ UNCHANGED <<secrets, jsonVars, coerceVars, briefVars, debateVars, headlineVars, creativeVars,
                   excerptVars, fetchVars>>

NextLLM == QueryOpenAI \/ QueryGeminiChat \/ LLMReturn

SpecLLM == InitLLM /\ [][NextLLM]_vars

(***************************************************************************)
(* coerce_brief applied to any value: non-mappings, mappings with up to    *)
(* MaxBriefFields keys (brief keys and an unrelated one), and full briefs. *)
(***************************************************************************)
MaxBriefFields == 2

UNRELATED_KEY == <<"unrelated">>

BriefFieldValues ==
    {JNull, JStr(<<>>), JStr(<<"a">>), JStr(<<SP, "a", SP>>), JNum(<<"1">>), JTrue,
     JArr(<<JStr(<<"a">>)>>), JObj(<<"a">> :> JNum(<<"1">>))}

PartialDicts ==
    {JObj(m) : m \in UNION {[S -> BriefFieldValues] :
                    S \in {T \in SUBSET (BriefKeySet \cup {UNRELATED_KEY}) :
                              Cardinality(T) <= MaxBriefFields}}}

FullDicts == {JObj(m) : m \in [BriefKeySet -> {JStr(<<"a", SP>>), JNum(<<"1">>)}]}

CoerceInputs ==
    {JNull, JStr(<<"a">>), JNum(<<"1">>), JTrue, JArr(<<>>)} \cup PartialDicts \cup FullDicts

InitCoerce ==
    /\ InitLLM0 /\ InitJson0 /\ InitBrief0 /\ InitDebate0 /\ InitHeadline0 /\ InitCreative0
    /\ InitExcerpt0 /\ InitFetch0
    /\ coerceIn \in CoerceInputs
    /\ coerceOut = [done |-> FALSE, val |-> JNull]
    /\ coerceTwice = [done |-> FALSE, val |-> JNull]

CoerceBrief ==
    /\ ~coerceOut.done
    /\ coerceOut' = [done |-> TRUE, val |-> coerce_brief(coerceIn)]
    /\ UNCHANGED <<llmVars, jsonVars, briefVars, debateVars, coerceIn, coerceTwice, headlineVars, creativeVars,
                   excerptVars, fetchVars>>

\* The coerced brief is handed to coerce_brief again (as brief_builder_turn
\* does with the brief a previous turn returned).
CoerceBriefAgain ==
    /\ coerceOut.done /\ ~coerceTwice.done
    /\ coerceTwice' = [done |-> TRUE, val |-> coerce_brief(coerceOut.val)]
    /\ UNCHANGED <<llmVars, jsonVars, briefVars, debateVars, coerceIn, coerceOut, headlineVars, creativeVars,
                   excerptVars, fetchVars>>

NextCoerce == CoerceBrief \/ CoerceBriefAgain

SpecCoerce == InitCoerce /\ [][NextCoerce]_vars

(***************************************************************************)
(* The brief dialogue and the brief extraction of the copywriter page.     *)
(***************************************************************************)
MaxFilled == 1
MaxChat == 3

\* What the user types into a brief field.
FieldTexts == {<<>>, <<"a">>, <<SP, "a">>}

\* What the model answers: an object with a brief, next_question and
\* is_ready; a bare brief; an object without a brief; text that is no JSON
\* object.
ModelBriefKeys == {<<"hook">>, <<"details">>, UNRELATED_KEY}
ModelFieldValues == {JStr(<<"b", SP>>)}
ModelBriefs ==
    {JObj(m) : m \in UNION {[S -> ModelFieldValues] : S \in SUBSET ModelBriefKeys}}
        \cup {JObj(<<"hook">> :> JNull @@ <<"details">> :> JStr(<<"b">>))}

TurnObject(b, q, r) ==
    JObj(<<"brief">> :> b @@ <<"next_question">> :> q @@ <<"is_ready">> :> r)

ModelObjects ==
    {TurnObject(b, JStr(<<"Ready">>), JTrue) : b \in ModelBriefs}
        \cup ModelBriefs
        \cup {TurnObject(JStr(<<"b">>), JStr(<<"q">>), JFalse),
              TurnObject(JObj(<<"hook">> :> JNum(<<"1">>)), JNull, JNull),
              JObj(<<"next_question">> :> JStr(<<SP, "q">>))}

ModelTexts ==
    {Serialize(o) : o \in ModelObjects}
        \cup {<<FENCE, JSON_WORD, SP>> \o Serialize(TurnObject(b, JStr(<<"q">>), JFalse))
                 \o <<SP, FENCE>> : b \in {JObj(<<"hook">> :> JStr(<<"b">>))}}
        \cup {<<>>, <<"a">>, <<"{", QT, "brief", QT>>,
              Serialize(JArr(<<JObj(<<"brief">> :> JObj(<<>>))>>))}

\* How the selected provider served the call: OpenAI selected, Gemini
\* selected and answering, or Gemini selected and raising.
ProviderPaths == {"OpenAI", "Gemini", "GeminiRaises"}
PathProvider(path) == IF path = "OpenAI" THEN "OpenAI" ELSE "Gemini"
RaiseOutcome == [kind |-> "raise", text |-> <<"timeout">>]
BriefOutcomes == [kind : {"ok"}, text : ModelTexts] \cup {RaiseOutcome}
PathGemini(path, out) == IF path = "Gemini" THEN out ELSE RaiseOutcome

GeminiMissing == [DefaultSecrets EXCEPT !.geminiSecret = <<>>]
BriefSecrets == {DefaultSecrets, GeminiMissing}

NotesTexts == {<<>>, <<SP>>, <<"notes">>}

InitBrief ==
    /\ secrets \in BriefSecrets
    /\ llmReq = NoReq /\ llmRes = NoRes
    /\ InitJson0 /\ InitCoerce0 /\ InitBrief0 /\ InitDebate0 /\ InitHeadline0 /\ InitCreative0
    /\ InitExcerpt0 /\ InitFetch0

Filled(sess) == Cardinality({k \in BriefKeySet : sess[k] # <<>>})

\* The user edits one brief field of the form.
EditField ==
    \E k \in BriefKeySet, t \in FieldTexts :
        /\ briefCall.fn = "idle"
        /\ session[k] # t
        /\ Filled([session EXCEPT ![k] = t]) <= MaxFilled
        /\ session' = [session EXCEPT ![k] = t]
        /\ UNCHANGED <<llmVars, jsonVars, coerceVars, debateVars, chat, chatReady, briefCall, headlineVars, creativeVars,
                   excerptVars, fetchVars>>

\* "Clear brief fields".
ClearBriefFields ==
    /\ briefCall.fn = "idle"
    /\ session # EmptySession
    /\ session' = _apply_extracted_brief_to_state(JObj([k \in BriefKeySet |-> JStr(<<>>)]))
    /\ UNCHANGED <<llmVars, jsonVars, coerceVars, debateVars, chat, chatReady, briefCall, headlineVars, creativeVars,
                   excerptVars, fetchVars>>

\* "Reset chat".
ResetChat ==
    /\ briefCall.fn = "idle"
    /\ chat # <<>>
    /\ chat' = <<>>
    /\ chatReady' = FALSE
    /\ UNCHANGED <<llmVars, jsonVars, coerceVars, debateVars, session, briefCall, headlineVars, creativeVars,
                   excerptVars, fetchVars>>

\* The user answers in the brief chat: the page appends the message, calls
\* brief_builder_turn with the widget values as current brief, and on a
\* result without error applies the returned brief and the next question.
SendChatMessage ==
    \E path \in ProviderPaths, out \in BriefOutcomes :
        LET chat0 == IF chat = <<>> THEN <<Message("assistant", OPENING_PROMPT)>> ELSE chat
            chat1 == Append(chat0, Message("user", <<"answer">>))
            current == CurrentBrief(session)
        IN  /\ briefCall.fn = "idle"
            /\ Len(chat1) < MaxChat
            /\ \E turn \in {brief_builder_turn(chat1, current, PathProvider(path),
                               DEFAULT_OPENAI_FAST_MODEL, DEFAULT_GEMINI_MODEL, "Email",
                               "Medium (200-500 words)", "Australia", secrets,
                               PathGemini(path, out), out)} :
                LET brief == IF PyBool(turn.brief) THEN turn.brief ELSE JObj(<<>>)
                    q == strip(turn.next_question)
                    next_q == IF q # <<>> THEN q ELSE ANYTHING_ELSE
                    reply == IF Len(next_q) = 1 /\ lower(next_q[1]) = "ready"
                             THEN READY_MESSAGE ELSE next_q
                IN  /\ briefCall' = [fn |-> "brief_builder_turn", current |-> current,
                                     ret |-> turn]
                    /\ IF turn.error # <<>>
                       THEN /\ chat' = chat1
                            /\ UNCHANGED <<session, chatReady>>
                       ELSE /\ session' = _apply_extracted_brief_to_state(brief)
                            /\ chatReady' = turn.is_ready
                            /\ chat' = Append(chat1, Message("assistant", reply))
            /\ UNCHANGED <<llmVars, jsonVars, coerceVars, debateVars, headlineVars, creativeVars,
                   excerptVars, fetchVars>>

\* "Extract brief" on pasted notes: no call when the notes are blank.
ExtractBrief ==
    \E path \in ProviderPaths, out \in BriefOutcomes, notes \in NotesTexts :
        LET src == strip(notes)
        IN  /\ briefCall.fn = "idle"
            /\ src # <<>>
            /\ \E res \in {extract_campaign_brief_from_text(src, PathProvider(path),
                              DEFAULT_OPENAI_FAST_MODEL, DEFAULT_GEMINI_MODEL, secrets,
                              PathGemini(path, out), out)} :
                LET brief == IF PyBool(res.brief) THEN res.brief ELSE JObj(<<>>)
                IN  /\ briefCall' = [fn |-> "extract_campaign_brief_from_text",
                                     current |-> CurrentBrief(session), ret |-> res]
                    /\ IF res.error # <<>>
                       THEN UNCHANGED session
                       ELSE session' = _apply_extracted_brief_to_state(brief)
            /\ UNCHANGED <<llmVars, jsonVars, coerceVars, debateVars, chat, chatReady, headlineVars, creativeVars,
                   excerptVars, fetchVars>>

\* st.rerun(): the script run that made the call is over.
Rerun ==
    /\ briefCall.fn # "idle"
    /\ briefCall' = NoBriefCall
    /\ UNCHANGED <<llmVars, jsonVars, coerceVars, debateVars, session, chat, chatReady, headlineVars, creativeVars,
                   excerptVars, fetchVars>>

NextBrief ==
    EditField \/ ClearBriefFields \/ ResetChat \/ SendChatMessage \/ ExtractBrief \/ Rerun

SpecBrief == InitBrief /\ [][NextBrief]_vars

(***************************************************************************)
(* Invocations of focus_group_debate: personas, creatives, excerpt         *)
(* settings, configurations and the outcome of each provider call.         *)
(***************************************************************************)
Anna ==
    [uid |-> "cautious_savers::anna",
     core |-> JObj(<<"name">> :> JStr(<<"Anna">>) @@ <<"age">> :> JNum(<<"1">>)
                   @@ <<"occupation">> :> JStr(<<"nurse">>)
                   @@ <<"location">> :> JStr(<<"Perth">>)
                   @@ <<"values">> :> JArr(<<JStr(<<"security">>), JStr(<<"family">>)>>)
                   @@ <<"goals">> :> JArr(<<JStr(<<"retire">>)>>)
                   @@ <<"concerns">> :> JArr(<<>>)
                   @@ <<"behavioural_traits">> :>
                        JObj(<<"risk_tolerance">> :> JStr(<<"Low">>)))]

\* A persona whose core has no name.
Nameless ==
    [uid |-> "growth_chasers::p2",
     core |-> JObj(<<"age">> :> JNum(<<"1", "1">>)
                   @@ <<"occupation">> :> JStr(<<"trader">>)
                   @@ <<"values">> :> JArr(<<>>)
                   @@ <<"goals">> :> JArr(<<>>)
                   @@ <<"concerns">> :> JArr(<<JStr(<<"fees">>)>>))]

PersonaPairs == {<<Anna, Nameless>>, <<Nameless, Anna>>, <<Anna, Anna>>}

Creatives ==
    {JNull, JStr(<<>>), JStr(<<SP>>), JStr(<<"act", SP, "now">>),
     JStr(<<SP, "Guaranteed", SP, "returns", SP, "ALWAYS", SP>>)}

\* A text of n words.
Words(n) == [i \in 1..(2 * n - 1) |-> IF i % 2 = 1 THEN "word" ELSE SP]

ExcerptSettings ==
    {[participant_scope |-> "First N words", participant_n_words |-> 450,
      participant_custom_excerpt |-> <<>>],
     [participant_scope |-> "First N words", participant_n_words |-> 2,
      participant_custom_excerpt |-> <<>>],
     [participant_scope |-> "Full text (capped)", participant_n_words |-> 450,
      participant_custom_excerpt |-> <<>>],
     [participant_scope |-> "Custom excerpt", participant_n_words |-> 450,
      participant_custom_excerpt |-> <<SP, "only", SP, "this", SP>>],
     [participant_scope |-> "Custom excerpt", participant_n_words |-> 450,
      participant_custom_excerpt |-> <<SP>>]}

CopyTypes == {"Email", "Headline"}

DebateArgs ==
    {[believer |-> pp[1], skeptic |-> pp[2], creative_text |-> c, copy_type |-> ct,
      participant_scope |-> e.participant_scope,
      participant_n_words |-> e.participant_n_words,
      participant_custom_excerpt |-> e.participant_custom_excerpt,
      extract_brief |-> x, brief_model |-> DEFAULT_OPENAI_FAST_MODEL,
      model |-> DEFAULT_OPENAI_MODEL, moderator_model |-> DEFAULT_GEMINI_MODEL] :
        pp \in PersonaPairs, c \in Creatives, ct \in CopyTypes, e \in ExcerptSettings,
        x \in BOOLEAN}

OpenAIMissing == [DefaultSecrets EXCEPT !.openaiSecret = <<>>]
DebateSecrets == {DefaultSecrets, GeminiMissing, OpenAIMissing}

ExtractedBrief ==
    JObj(<<"primary_promise">> :> JStr(<<"returns">>)
         @@ <<"key_claims">> :> JArr(<<JStr(<<"guaranteed">>)>>)
         @@ <<"cta">> :> JStr(<<>>))

BriefExtractOutcomes ==
    {[kind |-> "ok", text |-> <<"Sure:", SP>> \o Serialize(ExtractedBrief)],
     [kind |-> "ok", text |-> <<"no", SP, "brief">>],
     RaiseOutcome}

TurnOutcomes == {[kind |-> "ok", text |-> <<SP, "reply">>], RaiseOutcome}

ModeratorOutcomes ==
    {[kind |-> "ok",
      text |-> Serialize(JObj(<<"executive_summary">> :> JStr(<<"weak">>)))],
     RaiseOutcome}

InitDebate ==
    /\ secrets \in DebateSecrets
    /\ llmReq = NoReq /\ llmRes = NoRes
    /\ InitJson0 /\ InitCoerce0 /\ InitBrief0 /\ InitDebate0 /\ InitHeadline0 /\ InitCreative0
    /\ InitExcerpt0 /\ InitFetch0

\* focus_group_debate is called: the code up to its first provider call.
FocusGroupDebate ==
    \E a \in DebateArgs :
        /\ fgPc = "idle"
        /\ fgArgs' = a
        /\ fgCalls' = <<>>
        /\ IF trimmed_creative(a.creative_text) = <<>>
           THEN /\ fgPc' = "done"
                /\ fgLocals' = NoLocals
                /\ fgResult' = NoCreativeResult
           ELSE /\ fgPc' = IF a.extract_brief THEN "brief" ELSE "believer"
                /\ fgLocals' =
                     [NoLocals EXCEPT
                        !.creative_text = trimmed_creative(a.creative_text),
                        !.excerpt = _excerpt(trimmed_creative(a.creative_text), a.participant_scope,
                                             a.participant_n_words,
                                             a.participant_custom_excerpt),
                        !.creative_for_moderator =
                            truncate_words(trimmed_creative(a.creative_text),
                                           MODERATOR_CAP_WORDS),
                        !.brief_summary = summarize_brief_for_personas(JNull)]
                /\ fgResult' = NoResult
        /\ UNCHANGED <<llmVars, jsonVars, coerceVars, briefVars, headlineVars, creativeVars,
                   excerptVars, fetchVars>>

\* The brief-extraction call returns; its text goes through
\* extract_json_object and the summary for the personas is built.
BriefExtraction ==
    /\ fgPc = "brief"
    /\ \E oc \in BriefExtractOutcomes :
        \E r \in {query_openai(secrets,
                      <<Message("user", brief_extraction_prompt(fgArgs.copy_type,
                                            fgLocals.creative_for_moderator))>>,
                      fgArgs.brief_model, BRIEF_EXTRACT_TEMPERATURE, None, None, oc)} :
            \E x \in {extract_json_object(r.text)} :
                /\ fgCalls' = fgCalls \o StepLog("brief", r.log)
                /\ IF r.raised \/ x.raised
                   THEN /\ fgPc' = "done"
                        /\ fgResult' = RaisedResult
                        /\ UNCHANGED fgLocals
                   ELSE /\ fgPc' = "believer"
                        /\ fgLocals' = [fgLocals EXCEPT
                                          !.brief_raw = r.text,
                                          !.brief_json = x.val,
                                          !.brief_summary =
                                              summarize_brief_for_personas(x.val)]
                        /\ UNCHANGED fgResult
    /\ UNCHANGED <<llmVars, jsonVars, coerceVars, briefVars, fgArgs, headlineVars, creativeVars,
                   excerptVars, fetchVars>>

\* 1) Believer.
BelieverOpening ==
    /\ fgPc = "believer"
    /\ \E oc \in TurnOutcomes :
        \E r \in {query_openai(secrets,
                      believer_opening_messages(fgArgs.believer, fgArgs.copy_type,
                          fgLocals.excerpt, fgLocals.brief_summary),
                      fgArgs.model, OPENING_TEMPERATURE, None, None, oc)} :
            /\ fgCalls' = fgCalls \o StepLog("believer", r.log)
            /\ IF r.raised
               THEN /\ fgPc' = "done"
                    /\ fgResult' = RaisedResult
                    /\ UNCHANGED fgLocals
               ELSE /\ fgPc' = "skeptic"
                    /\ fgLocals' = [fgLocals EXCEPT !.msg_a = r.text]
                    /\ UNCHANGED fgResult
    /\ UNCHANGED <<llmVars, jsonVars, coerceVars, briefVars, fgArgs, headlineVars, creativeVars,
                   excerptVars, fetchVars>>

\* 2) Skeptic.
SkepticResponse ==
    /\ fgPc = "skeptic"
    /\ \E oc \in TurnOutcomes :
        \E r \in {query_openai(secrets,
                      skeptic_response_messages(fgArgs.skeptic, fgArgs.copy_type,
                          fgLocals.excerpt, fgLocals.brief_summary, fgLocals.msg_a),
                      fgArgs.model, OPENING_TEMPERATURE, None, None, oc)} :
            /\ fgCalls' = fgCalls \o StepLog("skeptic", r.log)
            /\ IF r.raised
               THEN /\ fgPc' = "done"
                    /\ fgResult' = RaisedResult
                    /\ UNCHANGED fgLocals
               ELSE /\ fgPc' = "rebuttal"
                    /\ fgLocals' = [fgLocals EXCEPT !.msg_b = r.text]
                    /\ UNCHANGED fgResult
    /\ UNCHANGED <<llmVars, jsonVars, coerceVars, briefVars, fgArgs, headlineVars, creativeVars,
                   excerptVars, fetchVars>>

\* 3) Believer rebuttal.
BelieverRebuttal ==
    /\ fgPc = "rebuttal"
    /\ \E oc \in TurnOutcomes :
        \E r \in {query_openai(secrets,
                      believer_rebuttal_messages(fgArgs.believer, fgLocals.msg_b),
                      fgArgs.model, REBUTTAL_TEMPERATURE, None, None, oc)} :
            /\ fgCalls' = fgCalls \o StepLog("rebuttal", r.log)
            /\ IF r.raised
               THEN /\ fgPc' = "done"
                    /\ fgResult' = RaisedResult
                    /\ UNCHANGED fgLocals
               ELSE /\ fgPc' = "counter"
                    /\ fgLocals' = [fgLocals EXCEPT !.msg_a2 = r.text]
                    /\ UNCHANGED fgResult
    /\ UNCHANGED <<llmVars, jsonVars, coerceVars, briefVars, fgArgs, headlineVars, creativeVars,
                   excerptVars, fetchVars>>

\* 4) Skeptic counter.
SkepticCounter ==
    /\ fgPc = "counter"
    /\ \E oc \in TurnOutcomes :
        \E r \in {query_openai(secrets,
                      skeptic_counter_messages(fgArgs.skeptic, fgLocals.msg_a2),
                      fgArgs.model, REBUTTAL_TEMPERATURE, None, None, oc)} :
            /\ fgCalls' = fgCalls \o StepLog("counter", r.log)
            /\ IF r.raised
               THEN /\ fgPc' = "done"
                    /\ fgResult' = RaisedResult
                    /\ UNCHANGED fgLocals
               ELSE /\ fgPc' = "moderator"
                    /\ fgLocals' = [fgLocals EXCEPT !.msg_b2 = r.text]
                    /\ UNCHANGED fgResult
    /\ UNCHANGED <<llmVars, jsonVars, coerceVars, briefVars, fgArgs, headlineVars, creativeVars,
                   excerptVars, fetchVars>>

\* Moderator analysis through query_gemini, then the return statement.
ModeratorSynthesis ==
    /\ fgPc = "moderator"
    /\ \E og \in ModeratorOutcomes, oc \in ModeratorOutcomes :
        \E turns \in {debate_turns(fgArgs.believer, fgArgs.skeptic, fgLocals.msg_a,
                                   fgLocals.msg_b, fgLocals.msg_a2, fgLocals.msg_b2)} :
            \E r \in {query_gemini(secrets,
                          moderator_prompt(fgArgs.copy_type, transcript_of(turns),
                              fgLocals.creative_for_moderator, fgLocals.brief_json),
                          fgArgs.moderator_model, og, oc)} :
                \E x \in {extract_json_object(r.text)} :
                    /\ fgCalls' = fgCalls \o StepLog("moderator", r.log)
                    /\ fgPc' = "done"
                    /\ fgResult' = IF r.raised \/ x.raised THEN RaisedResult
                                   ELSE DebateResult(fgArgs, fgLocals, turns, r.text, x.val)
    /\ UNCHANGED <<llmVars, jsonVars, coerceVars, briefVars, fgArgs, fgLocals, headlineVars, creativeVars,
                   excerptVars, fetchVars>>

\* The caller has the result; the next invocation starts afresh.
DebateReturn ==
    /\ fgPc = "done"
    /\ fgArgs' = NoArgs
    /\ fgPc' = "idle"
    /\ fgLocals' = NoLocals
    /\ fgCalls' = <<>>
    /\ fgResult' = NoResult
    /\ UNCHANGED <<llmVars, jsonVars, coerceVars, briefVars, headlineVars, creativeVars,
                   excerptVars, fetchVars>>

NextDebate ==
    \/ FocusGroupDebate \/ BriefExtraction \/ BelieverOpening \/ SkepticResponse
    \/ BelieverRebuttal \/ SkepticCounter \/ ModeratorSynthesis \/ DebateReturn

SpecDebate == InitDebate /\ [][NextDebate]_vars

(***************************************************************************)
(* Runs of the headline page: the lines typed into the headline box, the   *)
(* personas selected, and what the provider answers for each persona.  The *)
(* "generate variants" checkbox is left off.                               *)
(***************************************************************************)
MaxHeadlines == 3

HeadlineLines ==
    {<<"Buy", SP, "now">>, <<"-", SP, "buy", SP, "now">>, <<"1", ".", SP, QT, "hold", QT>>,
     <<"sell">>}

HeadlineBoxes == UNION {[1..k -> HeadlineLines] : k \in 0..MaxHeadlines}

Selections == {<<>>, <<Anna>>, <<Nameless, Anna>>}

HeadlineArgs ==
    [headlines_raw : HeadlineBoxes, selected : Selections,
     context : {<<SP, "offer", SP>>}, model : {DEFAULT_OPENAI_FAST_MODEL}]

\* JSON numbers 1..5.
N(k) == JNum(<<ToString(k)>>)

Top3Entry(idx, rank) ==
    JObj(<<"headline_index">> :> idx @@ <<"rank">> :> rank @@ <<"why">> :> JStr(<<"a">>))

Top3(entries) == JObj(<<"top_3">> :> entries @@ <<"best_angle">> :> JStr(<<"a">>))

HeadlineOutputs ==
    {Top3(JArr(<<Top3Entry(N(2), N(1)), Top3Entry(N(1), N(2))>>)),
     Top3(JArr(<<Top3Entry(N(1), N(1)), Top3Entry(N(2), N(2)), Top3Entry(N(3), N(3))>>)),
     Top3(JArr(<<Top3Entry(N(3), N(1)), Top3Entry(N(1), N(4))>>)),
     Top3(JArr(<<Top3Entry(N(5), N(1)), Top3Entry(N(2), N(5))>>)),
     Top3(JArr(<<Top3Entry(JStr(<<"1">>), JStr(<<"1">>))>>)),
     Top3(JArr(<<JStr(<<"a">>), Top3Entry(JNull, N(1)),
                 JObj(<<"rank">> :> N(2))>>)),
     Top3(N(5)),
     JObj(<<"best_angle">> :> JStr(<<"a">>)),
     JObj(<<>>)}

HeadlineOutcomes ==
    {[kind |-> "ok", text |-> Serialize(v)] : v \in HeadlineOutputs}
        \cup {[kind |-> "ok",
               text |-> <<FENCE, JSON_WORD, SP>>
                            \o Serialize(Top3(JArr(<<Top3Entry(N(2), N(1))>>)))
                            \o <<SP, FENCE>>],
              [kind |-> "ok", text |-> <<"no", SP, "json">>],
              RaiseOutcome}

InitHeadline ==
    /\ secrets \in {DefaultSecrets, OpenAIMissing}
    /\ llmReq = NoReq /\ llmRes = NoRes
    /\ InitJson0 /\ InitCoerce0 /\ InitBrief0 /\ InitDebate0 /\ InitHeadline0 /\ InitCreative0
    /\ InitExcerpt0 /\ InitFetch0

\* "Run headline test" is pressed: the code up to the loop over the
\* selected personas.
RunHeadlineTest ==
    \E a \in HeadlineArgs :
        \E h \in {_dedupe_preserve_order(cleaned_lines(a.headlines_raw))} :
            /\ htPc = "idle"
            /\ htArgs' = a
            /\ htResults' = <<>>
            /\ IF Len(h) < 1 \/ a.selected = <<>>
               THEN /\ htPc' = "stopped"
                    /\ htLocals' = NoHeadlineLocals
               ELSE /\ htPc' = "testing"
                    /\ htLocals' =
                         [headlines |-> h,
                          mode |-> IF Len(h) = 1 THEN "review" ELSE "compare",
                          llm_context |->
                              llm_context_of(a.context,
                                             IF Len(h) = 1 THEN "review" ELSE "compare")]
            /\ UNCHANGED <<llmVars, jsonVars, coerceVars, briefVars, debateVars,
                           creativeVars, htLast, excerptVars, fetchVars>>

\* One pass of the loop: test_headlines for the next selected persona.
TestPersona ==
    /\ htPc = "testing"
    /\ Len(htResults) < Len(htArgs.selected)
    /\ \E oc \in HeadlineOutcomes :
        \E p \in {htArgs.selected[Len(htResults) + 1]} :
            \E out \in {test_headlines(secrets, p, htLocals.headlines,
                                       htLocals.llm_context, htArgs.model, oc)} :
                IF out.raised
                THEN /\ htPc' = "test raised"
                     /\ UNCHANGED htResults
                ELSE /\ htPc' = "testing"
                     /\ htResults' =
                          Append(htResults,
                                 [persona_uid |-> p.uid, persona |-> PersonaName(p),
                                  output |-> out.val, raw |-> out.raw,
                                  extracted |-> out.extracted, log |-> out.log])
    /\ UNCHANGED <<llmVars, jsonVars, coerceVars, briefVars, debateVars, creativeVars,
                   htArgs, htLocals, htLast, excerptVars, fetchVars>>

\* After the loop: the scores are aggregated, the run is stored in the
\* session and the page reruns.
AggregateAndStore ==
    /\ htPc = "testing"
    /\ Len(htResults) = Len(htArgs.selected)
    /\ IF htLocals.mode = "compare" /\ aggregate_raises(htResults)
       THEN /\ htPc' = "aggregation raised"
            /\ UNCHANGED htLast
       ELSE /\ htPc' = "rerun"
            /\ htLast' = HeadlineLast(htLocals, htResults)
    /\ UNCHANGED <<llmVars, jsonVars, coerceVars, briefVars, debateVars, creativeVars,
                   htArgs, htLocals, htResults, excerptVars, fetchVars>>

\* The rerun shows the stored run: the leaderboard and the winner radio
\* with its default selection.
ShowResults ==
    /\ htPc = "rerun"
    /\ htPc' = "shown"
    /\ htLast' = [htLast EXCEPT
                    !.default_index = IF htLast.mode = "compare"
                                      THEN default_index_of(htLast.ranked) ELSE 0]
    /\ UNCHANGED <<llmVars, jsonVars, coerceVars, briefVars, debateVars, creativeVars,
                   htArgs, htLocals, htResults, excerptVars, fetchVars>>

\* A new session opens the page.
NewHeadlineSession ==
    /\ htPc \in {"stopped", "test raised", "aggregation raised", "shown"}
    /\ htArgs' = NoHeadlineArgs
    /\ htPc' = "idle"
    /\ htLocals' = NoHeadlineLocals
    /\ htResults' = <<>>
    /\ htLast' = NoLast
    /\ UNCHANGED <<llmVars, jsonVars, coerceVars, briefVars, debateVars, creativeVars,
                   excerptVars, fetchVars>>

NextHeadline ==
    RunHeadlineTest \/ TestPersona \/ AggregateAndStore \/ ShowResults \/ NewHeadlineSession

SpecHeadline == InitHeadline /\ [][NextHeadline]_vars

(***************************************************************************)
(* Calls of trait_rules, generate_copy_with_plan and qa_and_patch_copy:    *)
(* trait scores and configurations, drafts of chosen word counts, length   *)
(* buckets, providers, and the outcome of each provider call.              *)
(***************************************************************************)
MaxTraitScore == 10

URGENT_RULE == <<"Create", SP, "urgency.">>
CALM_RULE == <<"Stay", SP, "calm.">>
MEASURED_RULE == <<"Some", SP, "urgency.">>

TraitCfgs ==
    {[high_rule |-> URGENT_RULE, low_rule |-> CALM_RULE, mid_rule |-> MEASURED_RULE],
     [high_rule |-> URGENT_RULE, low_rule |-> CALM_RULE],
     [high_threshold |-> 7, low_threshold |-> 4, high_rule |-> URGENT_RULE,
      low_rule |-> CALM_RULE, mid_rule |-> MEASURED_RULE],
     [high_threshold |-> 3, low_threshold |-> 5, high_rule |-> URGENT_RULE,
      low_rule |-> CALM_RULE],
     [high_rule |-> <<>>, low_rule |-> <<SP>>, mid_rule |-> <<SP>>],
     [high_threshold |-> 9],
     [k \in {} |-> 0]}

SampleTraitConfig ==
    ("Urgency" :> [high_rule |-> URGENT_RULE, low_rule |-> CALM_RULE,
                   mid_rule |-> MEASURED_RULE])
        @@ ("FOMO" :> [high_threshold |-> 7, low_threshold |-> 4, high_rule |-> URGENT_RULE,
                       low_rule |-> CALM_RULE])

\* {} is what load_trait_config returns without a configuration file.
TraitConfigs ==
    {[k \in {} |-> 0], SampleTraitConfig} \cup {("Urgency" :> c) : c \in TraitCfgs}

TraitDicts ==
    {<< <<"Urgency", u>> >> : u \in 0..MaxTraitScore}
        \cup {<< <<"Urgency", u>>, <<"FOMO", f>> >> : u, f \in 0..MaxTraitScore}

TraitInputs == [traits : TraitDicts, trait_cfg : TraitConfigs]

SampleTraits == << <<"Urgency", 8>>, <<"FOMO", 5>> >>

SampleBrief ==
    JObj(<<"hook">> :> JStr(<<SP, "Retire", SP, "early", SP>>)
         @@ <<"details">> :> JStr(<<>>)
         @@ <<"offer_price">> :> JStr(<<"$99">>)
         @@ <<"offer_term">> :> JStr(<<"1", SP, "year">>))

GcArgs ==
    [copy_type : {"Email"}, country : {"Australia", "New Zealand"},
     traits : {SampleTraits}, brief : {JObj(<<>>), SampleBrief},
     length_choice : {"Short (100-200 words)", "Scrolling Monster (3000+ words)", "Custom"},
     provider : {"OpenAI", "Gemini", ""}, trait_cfg : {[k \in {} |-> 0], SampleTraitConfig},
     openai_model : {DEFAULT_OPENAI_MODEL}, gemini_model : {DEFAULT_GEMINI_MODEL}]

PlanAndCopy(copy) == JObj(<<"plan">> :> JStr(<<"outline">>) @@ <<"copy">> :> copy)

GcTexts ==
    {Serialize(PlanAndCopy(JStr(<<"Dear", SP, "reader">>))),
     Serialize(PlanAndCopy(JStr(<<>>))),
     Serialize(PlanAndCopy(JStr(<<SP>>))),
     Serialize(PlanAndCopy(N(5))),
     Serialize(PlanAndCopy(JStr(<<"Dear", BSN, "reader">>))),
     Serialize(JObj(<<"plan">> :> JStr(<<"outline">>))),
     <<FENCE, JSON_WORD, SP>> \o Serialize(PlanAndCopy(JStr(<<"Dear", SP, "reader">>)))
         \o <<SP, FENCE>>,
     <<"Here", SP, "it", SP, "is">>,
     <<FENCE, SP, "Dear", SP, "reader", SP, FENCE>>,
     <<"Dear", BSN, "reader">>,
     <<FENCE, JSON_WORD>>,
     <<SP>>}

GcOutcomes ==
    {[kind |-> "ok", text |-> t] : t \in GcTexts}
        \cup {[kind |-> "none", text |-> <<>>], RaiseOutcome}

GcGeminiOutcomes ==
    {[kind |-> "ok", text |-> Serialize(PlanAndCopy(JStr(<<"Dear", SP, "reader">>)))],
     [kind |-> "ok", text |-> <<FENCE>>], RaiseOutcome}

\* A draft of n words.
WithDisclaimer(t) == t \o <<SP>> \o DISCLAIMER_LINE

\* Drafts of 13, 49, 50, 61, 275 and 276 words that end with the
\* disclaimer line, and drafts without it.
QaDrafts ==
    {JNull, JStr(<<>>), JStr(<<SP>>), JStr(<<SP, "Buy", SP, "now", SP>>), JStr(Words(50)),
     JStr(WithDisclaimer(Words(2))), JStr(WithDisclaimer(Words(38))),
     JStr(WithDisclaimer(Words(39))), JStr(WithDisclaimer(Words(50))),
     JStr(WithDisclaimer(Words(264))), JStr(WithDisclaimer(Words(265)))}

\* A draft of n words that ends with the disclaimer line.
DraftOfWords(n) == JStr(WithDisclaimer(Words(n - word_count(DISCLAIMER_LINE))))

\* For every length bucket, the word counts on either side of half its
\* minimum and of 1.25 times its maximum.
BucketEdges ==
    {<<"Medium (200-500 words)", 99>>, <<"Medium (200-500 words)", 100>>,
     <<"Medium (200-500 words)", 687>>, <<"Medium (200-500 words)", 688>>,
     <<"Long (500-1500 words)", 249>>, <<"Long (500-1500 words)", 250>>,
     <<"Long (500-1500 words)", 2000>>, <<"Long (500-1500 words)", 2001>>,
     <<"Extra Long (1500-3000 words)", 749>>, <<"Extra Long (1500-3000 words)", 750>>,
     <<"Extra Long (1500-3000 words)", 4000>>, <<"Extra Long (1500-3000 words)", 4001>>,
     <<"Scrolling Monster (3000+ words)", 1499>>, <<"Scrolling Monster (3000+ words)", 1500>>}

EdgeQaArgs ==
    {[draft |-> DraftOfWords(e[2]), copy_type |-> "Email", country |-> "Australia",
      length_choice |-> e[1], traits |-> SampleTraits, trait_cfg |-> SampleTraitConfig,
      provider |-> "OpenAI", openai_model |-> DEFAULT_OPENAI_FAST_MODEL,
      gemini_model |-> DEFAULT_GEMINI_CHEAP_MODEL] : e \in BucketEdges}

QaArgs ==
    [draft : QaDrafts, copy_type : {"Email"}, country : {"Australia"},
     length_choice : {"Short (100-200 words)", "Medium (200-500 words)",
                      "Scrolling Monster (3000+ words)", "Custom"},
     traits : {SampleTraits}, trait_cfg : {SampleTraitConfig},
     provider : {"OpenAI", "Gemini"},
     openai_model : {DEFAULT_OPENAI_FAST_MODEL},
     gemini_model : {DEFAULT_GEMINI_CHEAP_MODEL}]
        \cup EdgeQaArgs

CritiqueTexts ==
    {PASS, <<"p", "a", "s", "s">>, <<"P", "a", "s", "s", ".">>,
     <<"-", SP, "b", "y", "p", "a", "s", "s", SP, "t", "h", "e", SP, "h", "y", "p", "e">>,
     <<"-", SP, "Shorten", SP, "the", SP, "intro">>,
     <<"-", SP, "p", "a", "s", SP, "s">>}

CritiqueOutcomes ==
    {[kind |-> "ok", text |-> t] : t \in CritiqueTexts}
        \cup {[kind |-> "none", text |-> <<>>], RaiseOutcome}

CritiqueGeminiOutcomes == {[kind |-> "ok", text |-> PASS], RaiseOutcome}

PatchOutcomes ==
    {[kind |-> "ok", text |-> <<SP, "Revised", SP, "copy", SP>>],
     [kind |-> "ok", text |-> <<SP>>], [kind |-> "none", text |-> <<>>], RaiseOutcome}

PatchGeminiOutcomes == {[kind |-> "ok", text |-> <<"Revised", SP, "copy">>], RaiseOutcome}

InitCreative ==
    /\ secrets \in {DefaultSecrets, GeminiMissing, OpenAIMissing}
    /\ llmReq = NoReq /\ llmRes = NoRes
    /\ InitJson0 /\ InitCoerce0 /\ InitBrief0 /\ InitDebate0 /\ InitHeadline0 /\ InitCreative0
    /\ InitExcerpt0 /\ InitFetch0

\* No call of the three functions is in progress.
CreativeIdle == qaPc = "idle" /\ ~trOut.applied /\ ~gcCall.called

TraitRules ==
    \E i \in TraitInputs :
        /\ CreativeIdle
        /\ trIn' = i
        /\ trOut' = [applied |-> TRUE, rules |-> trait_rules(i.traits, i.trait_cfg)]
        /\ UNCHANGED <<llmVars, jsonVars, coerceVars, briefVars, debateVars, headlineVars,
                       gcCall, qaArgs, qaPc, qaLocals, qaCalls, qaResult, excerptVars, fetchVars>>

TraitRulesReturn ==
    /\ trOut.applied
    /\ trIn' = NoTraitInput
    /\ trOut' = NotApplied
    /\ UNCHANGED <<llmVars, jsonVars, coerceVars, briefVars, debateVars, headlineVars,
                   gcCall, qaArgs, qaPc, qaLocals, qaCalls, qaResult, excerptVars, fetchVars>>

GenerateCopyWithPlan ==
    \E a \in GcArgs, og \in GcGeminiOutcomes, oc \in GcOutcomes :
        /\ CreativeIdle
        /\ gcCall' = [called |-> TRUE, args |-> a,
                      ret |-> generate_copy_with_plan(secrets, a, og, oc)]
        /\ UNCHANGED <<llmVars, jsonVars, coerceVars, briefVars, debateVars, headlineVars,
                       trIn, trOut, qaArgs, qaPc, qaLocals, qaCalls, qaResult, excerptVars, fetchVars>>

GenerateCopyReturn ==
    /\ gcCall.called
    /\ gcCall' = NoGcCall
    /\ UNCHANGED <<llmVars, jsonVars, coerceVars, briefVars, debateVars, headlineVars,
                   trIn, trOut, qaArgs, qaPc, qaLocals, qaCalls, qaResult, excerptVars, fetchVars>>

\* qa_and_patch_copy is called: the code up to its first provider call.
QaAndPatchCopy ==
    \E a \in QaArgs :
        \E text \in {strip(or_empty(a.draft))} :
            \E issues \in {qa_issues(text, a.length_choice)} :
                /\ CreativeIdle
                /\ qaArgs' = a
                /\ qaCalls' = <<>>
                /\ IF text = <<>>
                   THEN /\ qaPc' = "done"
                        /\ qaLocals' = NoQaLocals
                        /\ qaResult' = QaResult("ERROR", EMPTY_DRAFT, <<>>)
                   ELSE /\ qaPc' = IF issues # <<>> THEN "patch" ELSE "critique"
                        /\ qaLocals' = [text |-> text, issues |-> issues,
                                        critique |-> IF issues # <<>>
                                                     THEN issues_critique(issues) ELSE <<>>]
                        /\ qaResult' = NoQaResult
                /\ UNCHANGED <<llmVars, jsonVars, coerceVars, briefVars, debateVars,
                               headlineVars, trIn, trOut, gcCall, excerptVars, fetchVars>>

\* The model critique returns, and the approval test is made.
QaCritique ==
    /\ qaPc = "critique"
    /\ \E og \in CritiqueGeminiOutcomes, oc \in CritiqueOutcomes :
        \E r \in {_call_provider(secrets, qaArgs.provider, QA_SYSTEM,
                      critique_user_msg(qaArgs.copy_type, qaArgs.length_choice,
                                        trait_rules(qaArgs.traits, qaArgs.trait_cfg),
                                        qaArgs.country, qaLocals.text),
                      qaArgs.openai_model, qaArgs.gemini_model, CRITIQUE_TEMPERATURE,
                      FALSE, CRITIQUE_MAX_TOKENS, og, oc)} :
            /\ qaCalls' = Append(qaCalls, QaCall("critique", r))
            /\ qaLocals' = [qaLocals EXCEPT !.critique = r.text]
            /\ IF r.raised
               THEN /\ qaPc' = "done"
                    /\ qaResult' = [NoQaResult EXCEPT !.raised = TRUE]
               ELSE IF approved(r.text, qaLocals.issues)
               THEN /\ qaPc' = "done"
                    /\ qaResult' = QaResult("PASS", PASS, qaLocals.text)
               ELSE /\ qaPc' = "patch"
                    /\ UNCHANGED qaResult
    /\ UNCHANGED <<llmVars, jsonVars, coerceVars, briefVars, debateVars, headlineVars,
                   trIn, trOut, gcCall, qaArgs, excerptVars, fetchVars>>

\* The patch call returns.
QaPatch ==
    /\ qaPc = "patch"
    /\ \E og \in PatchGeminiOutcomes, oc \in PatchOutcomes :
        \E r \in {_call_provider(secrets, qaArgs.provider, PATCH_SYSTEM,
                      patch_user_msg(qaLocals.critique, qaLocals.text),
                      qaArgs.openai_model, qaArgs.gemini_model, PATCH_TEMPERATURE,
                      FALSE, MAX_OUTPUT_TOKENS, og, oc)} :
            /\ qaCalls' = Append(qaCalls, QaCall("patch", r))
            /\ qaPc' = "done"
            /\ qaResult' = IF r.raised THEN [NoQaResult EXCEPT !.raised = TRUE]
                           ELSE patch_return(strip(r.text), qaLocals.critique, qaLocals.text)
    /\ UNCHANGED <<llmVars, jsonVars, coerceVars, briefVars, debateVars, headlineVars,
                   trIn, trOut, gcCall, qaArgs, qaLocals, excerptVars, fetchVars>>

QaReturn ==
    /\ qaPc = "done"
    /\ qaArgs' = NoQaArgs
    /\ qaPc' = "idle"
    /\ qaLocals' = NoQaLocals
    /\ qaCalls' = <<>>
    /\ qaResult' = NoQaResult
    /\ UNCHANGED <<llmVars, jsonVars, coerceVars, briefVars, debateVars, headlineVars,
                   trIn, trOut, gcCall, excerptVars, fetchVars>>

NextCreative ==
    \/ TraitRules \/ TraitRulesReturn \/ GenerateCopyWithPlan \/ GenerateCopyReturn
    \/ QaAndPatchCopy \/ QaCritique \/ QaPatch \/ QaReturn

SpecCreative == InitCreative /\ [][NextCreative]_vars

(***************************************************************************)
(* The excerpt shown to the participants and the creative given to the     *)
(* moderator, as focus_group_debate computes them before its first         *)
(* provider call, and truncate_words on its own.  The inputs are short     *)
(* texts with every kind of spacing, and a few texts just over the two     *)
(* caps.                                                                   *)
(***************************************************************************)
MaxWords == 3

ParticipantScopes == {"First N words", "Full text (capped)", "Custom excerpt", "Whole text"}

ShortCreatives ==
    {JNull, JStr(<<>>), JStr(<<SP>>), JStr(<<"a">>),
     JStr(<<"a", SP, "b">>),
     JStr(<<"a", SP, SP, "b", SP, "c", "d">>),
     JStr(<<SP, "a", "b", SP, SP, "c", SP, "d", SP>>),
     JStr(<<"a", SP, "b", SP, "c", SP, "d", SP, "e">>)}

CustomExcerpts == {<<>>, <<SP>>, <<SP, "x", SP, SP, "y", "z", SP>>}

ShortExcerptArgs ==
    {[creative_text |-> c, participant_scope |-> s, participant_n_words |-> n,
      participant_custom_excerpt |-> x] :
        c \in ShortCreatives, s \in ParticipantScopes, n \in 0..MaxWords,
        x \in CustomExcerpts}

LongExcerptArgs ==
    {[creative_text |-> JStr(Words(PARTICIPANT_CAP_WORDS + 1)),
      participant_scope |-> "First N words",
      participant_n_words |-> PARTICIPANT_CAP_WORDS + 1,
      participant_custom_excerpt |-> <<>>],
     [creative_text |-> JStr(Words(PARTICIPANT_CAP_WORDS + 1)),
      participant_scope |-> "Full text (capped)",
      participant_n_words |-> 450,
      participant_custom_excerpt |-> <<>>],
     [creative_text |-> JStr(<<"act", SP, "now">>),
      participant_scope |-> "Custom excerpt",
      participant_n_words |-> 450,
      participant_custom_excerpt |-> Words(PARTICIPANT_CAP_WORDS + 1)],
     [creative_text |-> JStr(Words(MODERATOR_CAP_WORDS + 1)),
      participant_scope |-> "First N words",
      participant_n_words |-> 450,
      participant_custom_excerpt |-> <<>>]}

InitExcerpt ==
    /\ exArgs \in ShortExcerptArgs \cup LongExcerptArgs
    /\ exOut = NoExcerptOut
    /\ twOut = NoTruncation
    /\ InitLLM0 /\ InitJson0 /\ InitCoerce0 /\ InitBrief0 /\ InitDebate0
    /\ InitHeadline0 /\ InitCreative0 /\ InitFetch0

\* focus_group_debate up to its first provider call.
ComputeExcerpts ==
    /\ ~exOut.applied
    /\ \E creative_text \in {trimmed_creative(exArgs.creative_text)} :
          exOut' =
              IF creative_text = <<>>
              THEN [applied |-> TRUE, error |-> TRUE, excerpt |-> <<>>,
                    creative_for_moderator |-> <<>>]
              ELSE [applied |-> TRUE, error |-> FALSE,
                    excerpt |-> _excerpt(creative_text, exArgs.participant_scope,
                                         exArgs.participant_n_words,
                                         exArgs.participant_custom_excerpt),
                    creative_for_moderator |->
                        truncate_words(creative_text, MODERATOR_CAP_WORDS)]
    /\ UNCHANGED <<llmVars, jsonVars, coerceVars, briefVars, debateVars, headlineVars,
                   creativeVars, fetchVars, exArgs, twOut>>

\* truncate_words(text, max_words) on the creative as given.
TruncateWords ==
    /\ ~twOut.applied
    /\ twOut' = [applied |-> TRUE,
                 text |-> truncate_words(or_empty(exArgs.creative_text),
                                         exArgs.participant_n_words)]
    /\ UNCHANGED <<llmVars, jsonVars, coerceVars, briefVars, debateVars, headlineVars,
                   creativeVars, fetchVars, exArgs, exOut>>

NextExcerpt ==
    \/ ComputeExcerpts
    \/ TruncateWords

SpecExcerpt == InitExcerpt /\ [][NextExcerpt]_vars

(***************************************************************************)
(* fetch_meta_descriptions: one bound(u) task per URL under an             *)
(* asyncio.Semaphore, gathered in input order.  It exists twice, in        *)
(* engines/signals.py (a failure gives the empty string) and in the legacy *)
(* sheet script (a failure gives a placeholder text); fmArgs.legacy says   *)
(* which.  The event loop may run the ready tasks, and the HTTP responses  *)
(* may arrive, in any order.                                               *)
(***************************************************************************)
MaxUrls == 3
DEFAULT_CONCURRENCY == 10
HTTP_OK == 200

\* not url or not url.startswith("http").
invalid_url(url) == url = <<>> \/ ~startswith(url, <<"http">>)

INVALID_URL == <<"Invalid URL">>
NO_META_DESCRIPTION == <<"No Meta Description">>
ERROR_FETCHING == <<"Error Fetching Description">>

FetchReturned(text) == [raised |-> FALSE, text |-> text]
FetchRaised == [raised |-> TRUE, text |-> <<>>]

\* Variant of response_desc that lets the exception of session.get out.
response_desc_unguarded(legacy, o) ==
    IF o.kind = "raise" THEN FetchRaised
    ELSE IF o.status # HTTP_OK
    THEN FetchReturned(IF legacy THEN <<"HTTP", SP, ToString(o.status)>> ELSE <<>>)
    ELSE IF o.has_tag /\ (IF legacy THEN strip(o.content) # <<>> ELSE o.content # <<>>)
    THEN FetchReturned(strip(o.content))
    ELSE FetchReturned(IF legacy THEN NO_META_DESCRIPTION ELSE <<>>)

\* _grab_desc from the arrival of the response (or of the exception) on.
response_desc(legacy, o) ==
    IF o.kind = "raise" THEN FetchReturned(IF legacy THEN ERROR_FETCHING ELSE <<>>)
    ELSE IF o.status # HTTP_OK
    THEN FetchReturned(IF legacy THEN <<"HTTP", SP, ToString(o.status)>> ELSE <<>>)
    ELSE IF o.has_tag /\ (IF legacy THEN strip(o.content) # <<>> ELSE o.content # <<>>)
    THEN FetchReturned(strip(o.content))
    ELSE FetchReturned(IF legacy THEN NO_META_DESCRIPTION ELSE <<>>)

\* _grab_desc for a URL it rejects before any request.
invalid_desc(legacy) == FetchReturned(IF legacy THEN INVALID_URL ELSE <<>>)

\* Variant of sem_locked that always finds a free permit.
sem_locked_never(sem, tasks) == FALSE

\* Semaphore.locked(): no free permit, or tasks queued or woken ahead.
sem_locked(sem, tasks) ==
    \/ sem.value = 0
    \/ sem.waiters # <<>>
    \/ \E i \in 1..Len(tasks) : tasks[i].pc = "woken"

\* Semaphore.release(): the permit goes to the first queued task, which the
\* event loop will resume, or back to the semaphore.
sem_release(sem) ==
    IF sem.waiters # <<>> THEN [sem EXCEPT !.waiters = Tail(@)]
    ELSE [sem EXCEPT !.value = @ + 1]

woken_by_release(sem, tasks) ==
    IF sem.waiters # <<>> THEN [tasks EXCEPT ![Head(sem.waiters)].pc = "woken"] ELSE tasks

FetchPending == [kind |-> "pending"]
NewTask == [pc |-> "created", outcome |-> FetchPending]

UrlTexts == {<<>>, <<"ftp", "://files.example">>, <<"http", "s://a.example">>}

RECURSIVE UrlLists(_)
UrlLists(n) ==
    IF n = 0 THEN {<<>>}
    ELSE UrlLists(n - 1) \cup {Append(l, u) : l \in {x \in UrlLists(n - 1) : Len(x) = n - 1},
                                               u \in UrlTexts}

FetchOutcomes ==
    {[kind |-> "response", status |-> HTTP_OK, has_tag |-> TRUE,
      content |-> <<SP, "About", SP, "us", SP>>],
     [kind |-> "response", status |-> HTTP_OK, has_tag |-> TRUE, content |-> <<SP>>],
     [kind |-> "response", status |-> HTTP_OK, has_tag |-> FALSE, content |-> <<>>],
     [kind |-> "response", status |-> 404, has_tag |-> FALSE, content |-> <<>>],
     [kind |-> "raise", status |-> 0, has_tag |-> FALSE, content |-> <<>>]}

\* The call has built the semaphore and gather has created the tasks.
InitFetch ==
    /\ \E urls \in UrlLists(MaxUrls), c \in {1, 2, DEFAULT_CONCURRENCY}, legacy \in BOOLEAN :
          /\ fmArgs = [urls |-> urls, concurrency |-> c, legacy |-> legacy]
          /\ fmSem = [value |-> c, waiters |-> <<>>]
          /\ fmTasks = [i \in 1..Len(urls) |-> NewTask]
          /\ fmResults = [i \in 1..Len(urls) |-> FetchReturned(<<>>)]
    /\ fmReturn = NoFetchReturn
    /\ InitLLM0 /\ InitJson0 /\ InitCoerce0 /\ InitBrief0 /\ InitDebate0
    /\ InitHeadline0 /\ InitCreative0 /\ InitExcerpt0

\* A task holding a permit runs _grab_desc up to its first await: a URL it
\* rejects finishes the task and releases the permit at once, any other
\* sends the request.
EnterGrabDesc(i, sem, tasks) ==
    IF invalid_url(fmArgs.urls[i])
    THEN /\ fmResults' = [fmResults EXCEPT ![i] = invalid_desc(fmArgs.legacy)]
         /\ fmSem' = sem_release(sem)
         /\ fmTasks' = [woken_by_release(sem, tasks) EXCEPT ![i].pc = "done"]
    ELSE /\ fmResults' = fmResults
         /\ fmSem' = sem
         /\ fmTasks' = [tasks EXCEPT ![i].pc = "fetching"]

\* The event loop runs bound(u) for the first time: async with sem.
TaskStart(i) ==
    /\ ~fmReturn.returned
    /\ fmTasks[i].pc = "created"
    /\ IF sem_locked(fmSem, fmTasks)
       THEN /\ fmSem' = [fmSem EXCEPT !.waiters = Append(@, i)]
            /\ fmTasks' = [fmTasks EXCEPT ![i].pc = "waiting"]
            /\ fmResults' = fmResults
       ELSE EnterGrabDesc(i, [fmSem EXCEPT !.value = @ - 1], fmTasks)
    /\ UNCHANGED <<llmVars, jsonVars, coerceVars, briefVars, debateVars, headlineVars,
                   creativeVars, excerptVars, fmArgs, fmReturn>>

\* The event loop resumes a task that a release has handed a permit.
TaskResume(i) ==
    /\ ~fmReturn.returned
    /\ fmTasks[i].pc = "woken"
    /\ EnterGrabDesc(i, fmSem, fmTasks)
    /\ UNCHANGED <<llmVars, jsonVars, coerceVars, briefVars, debateVars, headlineVars,
                   creativeVars, excerptVars, fmArgs, fmReturn>>

\* The request of a task ends, with a response or an exception; the task
\* returns what _grab_desc makes of it and leaves async with sem.
FetchDone(i) ==
    /\ ~fmReturn.returned
    /\ fmTasks[i].pc = "fetching"
    /\ \E o \in FetchOutcomes :
          /\ fmResults' = [fmResults EXCEPT ![i] = response_desc(fmArgs.legacy, o)]
          /\ fmSem' = sem_release(fmSem)
          /\ fmTasks' = [woken_by_release(fmSem, fmTasks) EXCEPT
                             ![i] = [pc |-> "done", outcome |-> o]]
    /\ UNCHANGED <<llmVars, jsonVars, coerceVars, briefVars, debateVars, headlineVars,
                   creativeVars, excerptVars, fmArgs, fmReturn>>

\* asyncio.gather: the results in the order of the URLs once every task is
\* done, or the exception of a task as soon as it has raised.
GatherReturn ==
    /\ ~fmReturn.returned
    /\ IF \E i \in 1..Len(fmTasks) : fmTasks[i].pc = "done" /\ fmResults[i].raised
       THEN fmReturn' = [returned |-> TRUE, raised |-> TRUE, list |-> <<>>]
       ELSE /\ \A i \in 1..Len(fmTasks) : fmTasks[i].pc = "done"
            /\ fmReturn' = [returned |-> TRUE, raised |-> FALSE,
                            list |-> [i \in 1..Len(fmResults) |-> fmResults[i].text]]
    /\ UNCHANGED <<llmVars, jsonVars, coerceVars, briefVars, debateVars, headlineVars,
                   creativeVars, excerptVars, fmArgs, fmSem, fmTasks, fmResults>>

NextFetch ==
    \/ \E i \in 1..Len(fmTasks) : TaskStart(i)
    \/ \E i \in 1..Len(fmTasks) : TaskResume(i)
    \/ \E i \in 1..Len(fmTasks) : FetchDone(i)
    \/ GatherReturn

SpecFetch == InitFetch /\ [][NextFetch]_vars

\* The event loop runs every ready task and every request ends (each has a
\* timeout), so a step that stays possible is taken.
SpecFetchFair == SpecFetch /\ WF_vars(NextFetch)


(***************************************************************************)
(* Provider-client properties.                                             *)
(***************************************************************************)
PrimaryAttempts == SelectSeq(llmRes.log, LAMBDA a : a.provider = "Primary")
SecondaryAttempts == SelectSeq(llmRes.log, LAMBDA a : a.provider = "Secondary")

PrimaryFailed == ~get_openai_client(secrets) \/ llmReq.oc.kind = "raise"
SecondaryFailed == ~get_gemini_client(secrets) \/ llmReq.og.kind = "raise"

\* The error text query_openai produces for its own failure.
PrimaryErrorText ==
    IF ~get_openai_client(secrets) THEN OPENAI_NOT_CONFIGURED
    ELSE <<ERR, SP>> \o llmReq.oc.text

\* C1: query_openai and query_gemini_chat always return a text and never
\* raise; an unconfigured client or a raising provider call yields a text
\* starting with "Error:", and when Secondary and Primary both fail the
\* text is Primary's own error text.
C1_ErrorsAreText ==
    llmReq.entry # "idle" =>
        /\ ~llmRes.raised
        /\ llmRes.text \in Seq(STRING)
        /\ (llmReq.entry = "query_openai" /\ PrimaryFailed)
              => startswith(llmRes.text, <<ERR>>)
        /\ (llmReq.entry = "query_gemini_chat" /\ SecondaryFailed /\ PrimaryFailed)
              => llmRes.text = PrimaryErrorText

C1_Witness ==
    /\ llmReq.entry = "query_gemini_chat"
    /\ get_gemini_client(secrets) /\ llmReq.og.kind = "raise"
    /\ get_openai_client(secrets) /\ llmReq.oc.kind = "raise"
    /\ llmRes.text = <<ERR, SP, "timeout">>

\* What query_openai returns when called directly with the request's system
\* instruction and user prompt and the default model.
PrimaryDirect ==
    query_openai(secrets, <<Message("system", llmReq.system),
                            Message("user", llmReq.user)>>,
                 DEFAULT_OPENAI_MODEL, OPENAI_DEFAULT_TEMPERATURE, None, None,
                 llmReq.oc)

\* C2: in query_gemini_chat, when Secondary is unavailable or its call
\* raises, exactly one Primary call is made with the same system instruction
\* and user prompt and the default Primary model, and its return value is
\* what the caller gets; when Secondary succeeds there is no Primary call;
\* no provider is attempted twice.
C2_SingleFallback ==
    llmReq.entry = "query_gemini_chat" =>
        /\ Len(PrimaryAttempts) <= 1 /\ Len(SecondaryAttempts) <= 1
        /\ SecondaryFailed =>
              /\ Len(PrimaryAttempts) = 1
              /\ PrimaryAttempts[1].messages =
                    <<Message("system", llmReq.system), Message("user", llmReq.user)>>
              /\ PrimaryAttempts[1].model = DEFAULT_OPENAI_MODEL
              /\ llmRes.text = PrimaryDirect.text
              /\ ~llmRes.raised
        /\ ~SecondaryFailed => Len(PrimaryAttempts) = 0

C2_Witness ==
    /\ llmReq.entry = "query_gemini_chat"
    /\ get_gemini_client(secrets) /\ llmReq.og.kind = "raise"
    /\ get_openai_client(secrets) /\ llmReq.oc.kind = "ok"
    /\ Len(SecondaryAttempts) = 1 /\ Len(PrimaryAttempts) = 1
    /\ llmRes.text = <<"reply">>

(***************************************************************************)
(* JSON-extractor properties.                                              *)
(***************************************************************************)
MappingOrNull(r) == ~r.raised /\ r.val.t \in {"obj", "null"}

\* C3: parse_json_object and extract_json_object are total: for any text
\* they return a mapping or null and never raise.
C3_ExtractorTotal ==
    /\ "parse" \in jsonDone => MappingOrNull(jsonParsed)
    /\ "extract" \in jsonDone => MappingOrNull(jsonExtracted)

\* A truncated object: json.loads raised in both entry points.
C3_Witness ==
    /\ jsonText = <<"{", QT, "a">>
    /\ jsonDone = {"parse", "extract"}
    /\ jsonParsed = Returned(JNull) /\ jsonExtracted = Returned(JNull)

\* The fence-stripped text is a valid JSON value that is not an object.
CleanedIsNonObject ==
    LET r == json_loads(sanitize_json_text(jsonText))
    IN  r.ok /\ ~isinstance_dict(r.val)

\* C4: when the fence-stripped text is a valid JSON value whose top level
\* is not an object, both parse_json_object and extract_json_object return
\* null.
C4_NonObjectRejected ==
    CleanedIsNonObject =>
        /\ "parse" \in jsonDone => jsonParsed.val = JNull
        /\ "extract" \in jsonDone => jsonExtracted.val = JNull

\* C5: the serialisation of an object o, surrounded by brace-free prose
\* and/or a code fence, is parsed back to o by parse_json_object.
C5_WrappedObjectRecovered ==
    (jsonOrigin.kind = "wrapped" /\ isinstance_dict(jsonOrigin.val)
        /\ "parse" \in jsonDone)
        => jsonParsed = Returned(jsonOrigin.val)

(***************************************************************************)
(* Brief properties.                                                        *)
(***************************************************************************)
\* A mapping with exactly the 8 brief keys, every value a string.
IsBrief(b) ==
    /\ isinstance_dict(b)
    /\ DOMAIN b.m = BriefKeySet
    /\ Cardinality(DOMAIN b.m) = 8
    /\ \A k \in DOMAIN b.m : b.m[k].t = "str"

MissingOrNone(x, k) ==
    ~isinstance_dict(x) \/ k \notin DOMAIN x.m \/ x.m[k] = JNull

\* C6: coerce_brief returns, for any input, a mapping with exactly the 8
\* fixed keys and string values, empty where the key is missing or None,
\* and applying it to its own result changes nothing.
C6_CoerceTotalIdempotent ==
    /\ coerceOut.done =>
          /\ IsBrief(coerceOut.val)
          /\ \A k \in BriefKeySet :
                MissingOrNone(coerceIn, k) => coerceOut.val.m[k] = JStr(<<>>)
    /\ coerceTwice.done => coerceTwice.val = coerceOut.val

C6_Witness ==
    /\ coerceTwice.done
    /\ coerceIn = JObj(<<"hook">> :> JNum(<<"1">>) @@ UNRELATED_KEY :> JStr(<<SP, "a", SP>>))
    /\ coerceOut.val.m[<<"hook">>] = JStr(<<"1">>)
    /\ coerceOut.val.m[<<"details">>] = JStr(<<>>)

\* C7: every brief returned by brief_builder_turn and by
\* extract_campaign_brief_from_text, along any sequence of turns, has
\* exactly the 8 fixed keys with string values.
C7_BriefShape ==
    briefCall.fn # "idle" => IsBrief(briefCall.ret.brief)

\* A failed turn whose current brief came from an earlier model answer.
C7_Witness ==
    /\ briefCall.fn = "brief_builder_turn"
    /\ briefCall.current.m[<<"hook">>] = JStr(<<"b">>)
    /\ briefCall.ret.error # <<>>
    /\ Len(chat) >= 2

TurnObj == parse_json_object(briefCall.ret.raw).val

\* C8: a brief_builder_turn whose model response yields no JSON object
\* does not raise and returns the fallback question, is_ready false, an
\* error, and coerce_brief(current_brief); the captured brief is unchanged.
C8_FailedTurn ==
    (briefCall.fn = "brief_builder_turn" /\ TurnObj = JNull) =>
        /\ ~briefCall.ret.raised
        /\ briefCall.ret.next_question = FALLBACK_QUESTION
        /\ ~briefCall.ret.is_ready
        /\ "error" \in briefCall.ret.keys /\ briefCall.ret.error # <<>>
        /\ briefCall.ret.brief = coerce_brief(briefCall.current)
        /\ session = [k \in BriefKeySet |-> briefCall.current.m[k].s]

C8_Witness ==
    /\ briefCall.fn = "brief_builder_turn"
    /\ briefCall.ret.raw = <<ERR, SP, "timeout">>
    /\ briefCall.current.m[<<"hook">>] = JStr(<<SP, "a">>)
    /\ briefCall.ret.brief.m[<<"hook">>] = JStr(<<"a">>)
    /\ session[<<"hook">>] = <<SP, "a">>

\* C9: on a parsed response the returned brief is coerce_brief of the
\* model's "brief" value and replaces the current brief: every key the
\* model omits becomes the empty string, whatever the current brief held.
C9_ReplaceNotMerge ==
    (briefCall.fn = "brief_builder_turn" /\ isinstance_dict(TurnObj)) =>
        LET nb == dict_get(TurnObj, <<"brief">>)
        IN  /\ briefCall.ret.brief = coerce_brief(nb)
            /\ \A k \in BriefKeySet :
                  (~isinstance_dict(nb) \/ k \notin DOMAIN nb.m) =>
                      /\ briefCall.ret.brief.m[k] = JStr(<<>>)
                      /\ session[k] = <<>>

C9_Witness ==
    /\ briefCall.fn = "brief_builder_turn"
    /\ briefCall.current.m[<<"offer_price">>] = JStr(<<"a">>)
    /\ isinstance_dict(TurnObj)
    /\ dict_get(TurnObj, <<"brief">>) = JObj(<<"hook">> :> JStr(<<"b", SP>>))
    /\ session[<<"offer_price">>] = <<>>
    /\ session[<<"hook">>] = <<"b">>

(***************************************************************************)
(* Properties of the focus-group debate.                                   *)
(***************************************************************************)
\* The positions of focus_group_debate after its brief-extraction step.
AfterBrief == {"believer", "skeptic", "rebuttal", "counter", "moderator"}

BriefExtractionFailed ==
    /\ fgArgs.extract_brief
    /\ fgLocals.brief_json = JNull

\* The persona-turn requests sent so far carry no brief summary.
NoSummaryInPrompts ==
    \A i \in 1..Len(fgCalls) :
        fgCalls[i].step \in {"believer", "skeptic"}
            => ~contains(fgCalls[i].attempt.messages[2].content,
                         <<"BRIEF SUMMARY (for context):">>)

\* C10: on a non-empty creative, whatever the personas and the provider
\* outcomes, focus_group_debate returns without raising, and debate_turns
\* has exactly 4 turns tagged Believer, Skeptic, Believer, Skeptic, turns 1
\* and 3 carrying the believer's name and uid, turns 2 and 4 the skeptic's;
\* a failed brief extraction does not end the call: the debate goes on with
\* an empty brief summary.
C10_DebateTurns ==
    /\ (fgPc = "done" /\ strip(or_empty(fgArgs.creative_text)) # <<>>) =>
          /\ ~fgResult.raised
          /\ "debate_turns" \in fgResult.keys
          /\ Len(fgResult.debate_turns) = 4
          /\ [i \in 1..4 |-> fgResult.debate_turns[i].role]
                = <<"Believer", "Skeptic", "Believer", "Skeptic">>
          /\ \A i \in {1, 3} :
                /\ fgResult.debate_turns[i].uid = fgArgs.believer.uid
                /\ fgResult.debate_turns[i].name = PersonaName(fgArgs.believer)
          /\ \A i \in {2, 4} :
                /\ fgResult.debate_turns[i].uid = fgArgs.skeptic.uid
                /\ fgResult.debate_turns[i].name = PersonaName(fgArgs.skeptic)
    /\ (fgPc \in AfterBrief \cup {"done"} /\ strip(or_empty(fgArgs.creative_text)) # <<>>
          /\ BriefExtractionFailed) =>
          /\ ~fgResult.raised
          /\ fgLocals.brief_summary = <<>>
          /\ NoSummaryInPrompts

\* A debate that ran to its end although the brief extraction failed and a
\* turn came back as a provider error text.
C10_Witness ==
    /\ fgPc = "done"
    /\ BriefExtractionFailed
    /\ startswith(fgLocals.brief_raw, <<ERR>>)
    /\ Len(fgResult.debate_turns) = 4
    /\ startswith(fgResult.debate_turns[2].text, <<ERR>>)
    /\ ~startswith(fgResult.debate_turns[1].text, <<ERR>>)
    /\ fgArgs.believer # fgArgs.skeptic
    /\ fgResult.debate_turns[1].name = <<"Unknown">>

\* C11: when the creative text is empty, None or blank, focus_group_debate
\* returns exactly {"error": "No creative provided"} and has made no
\* provider call: no brief extraction, no debate turn, no moderator call.
C11_NoCreative ==
    (fgPc # "idle" /\ strip(or_empty(fgArgs.creative_text)) = <<>>) =>
        /\ fgPc = "done"
        /\ ~fgResult.raised
        /\ fgResult.keys = {"error"}
        /\ fgResult.error = <<"No creative provided">>
        /\ fgCalls = <<>>

\* focus_group_debate has returned on a creative of blanks only.
C11_Witness ==
    /\ fgPc = "done"
    /\ fgArgs.creative_text = JStr(<<SP>>)
    /\ fgResult.keys = {"error"}

(***************************************************************************)
(* Headline-test properties.                                               *)
(***************************************************************************)
ErrorMapping(raw) ==
    JObj(<<"error">> :> JStr(COULD_NOT_PARSE_JSON) @@ <<"raw">> :> JStr(raw))

\* C12: test_headlines never raises and never returns None; it returns the
\* mapping {error, raw}, raw being the model text as received, exactly
\* when the extractor returned None for that text, and the extracted object
\* unchanged otherwise.
C12_TestHeadlinesResult ==
    /\ htPc # "test raised"
    /\ \A i \in 1..Len(htResults) :
          /\ htResults[i].output # JNull
          /\ IF htResults[i].extracted = JNull
             THEN htResults[i].output = ErrorMapping(htResults[i].raw)
             ELSE htResults[i].output = htResults[i].extracted

RECURSIVE SumSeq(_)
SumSeq(q) == IF q = <<>> THEN 0 ELSE Head(q) + SumSeq(Tail(q))

IsErrorMapping(output) == <<"error">> \in DOMAIN output.m

\* What an entry of top_3 adds to headline i: max(0, 4 - rank) when it is
\* an object whose headline_index is the integer i and whose rank is an
\* integer, and nothing otherwise.
EntryPoints(item, i) ==
    IF /\ item.t = "obj"
       /\ dict_get(item, <<"headline_index">>).t = "num"
       /\ dict_get(item, <<"rank">>).t = "num"
       /\ IntVal(dict_get(item, <<"headline_index">>).d) = i
    THEN max0(4 - IntVal(dict_get(item, <<"rank">>).d))
    ELSE 0

PersonaPoints(output, i) ==
    IF IsErrorMapping(output) \/ dict_get(output, <<"top_3">>).t # "arr" THEN 0
    ELSE SumSeq([k \in 1..Len(dict_get(output, <<"top_3">>).a) |->
                    EntryPoints(dict_get(output, <<"top_3">>).a[k], i)])

ExpectedScore(results, i) ==
    SumSeq([k \in 1..Len(results) |-> PersonaPoints(results[k].output, i)])

\* C13: in compare mode the aggregation yields, for every headline i, the
\* sum over all personas and all their top_3 entries with headline_index i
\* of max(0, 4 - rank); entries with an index outside 1..n or with
\* non-integer fields, and personas whose output is an error mapping, add
\* nothing.
C13_AggregateScores ==
    /\ htPc # "aggregation raised"
    /\ (htLast.set /\ htLast.mode = "compare") =>
          \A i \in 1..Len(htLast.headlines) :
              htLast.scores[i] = ExpectedScore(htLast.results, i)

MaxScore(scores) == CHOOSE m \in {scores[i] : i \in DOMAIN scores} :
                        \A i \in DOMAIN scores : scores[i] <= m

\* C14: the leaderboard lists every headline once with its score, by score
\* descending and, among equal scores, in input order; the default
\* selection of the winner radio is the lowest-index headline with the
\* maximal score.
C14_Leaderboard ==
    (htPc = "shown" /\ htLast.mode = "compare") =>
        /\ Len(htLast.ranked) = Len(htLast.headlines)
        /\ {htLast.ranked[k][1] : k \in 1..Len(htLast.ranked)} = 1..Len(htLast.headlines)
        /\ \A k \in 1..Len(htLast.ranked) :
              htLast.ranked[k][2] = htLast.scores[htLast.ranked[k][1]]
        /\ \A k, l \in 1..Len(htLast.ranked) :
              k < l => \/ htLast.ranked[k][2] > htLast.ranked[l][2]
                       \/ /\ htLast.ranked[k][2] = htLast.ranked[l][2]
                          /\ htLast.ranked[k][1] < htLast.ranked[l][1]
        /\ htLast.scores[htLast.default_index + 1] = MaxScore(htLast.scores)
        /\ \A i \in 1..htLast.default_index : htLast.scores[i] < MaxScore(htLast.scores)

\* A shown leaderboard of three headlines where the second and the third
\* tie for the highest score.
C14_Witness ==
    /\ htPc = "shown"
    /\ htLast.mode = "compare"
    /\ Len(htLast.headlines) = 3
    /\ htLast.scores[2] = htLast.scores[3]
    /\ htLast.scores[1] < htLast.scores[2]
    /\ htLast.default_index = 1

(***************************************************************************)
(* Copy QA, copy generation and trait-rule properties.                     *)
(***************************************************************************)
QaText == strip(or_empty(qaArgs.draft))
\* The words of the draft, counted by their first atoms.
QaWordCount ==
    Cardinality({i \in 1..Len(QaText) : QaText[i] # SP /\ (i = 1 \/ QaText[i - 1] = SP)})
QaBucket == length_rule(qaArgs.length_choice, <<0, 0>>)

\* The three deterministic checks: fewer words than half the bucket's
\* minimum, more than 1.25 times its maximum, no disclaimer line.
TooShort == QaBucket[1] # 0 /\ 2 * QaWordCount < QaBucket[1]
TooLong == QaBucket[2] # 0 /\ 4 * QaWordCount > 5 * QaBucket[2]
NoDisclaimer == ~contains(QaText, DISCLAIMER_LINE)
Flagged == TooShort \/ TooLong \/ NoDisclaimer
FlagCount ==
    (IF TooShort THEN 1 ELSE 0) + (IF TooLong THEN 1 ELSE 0) + (IF NoDisclaimer THEN 1 ELSE 0)

CallsOf(step) == SelectSeq(qaCalls, LAMBDA c : c.step = step)
UserMessageOf(c) == c.log[1].messages[2].content
FixesIn(c, fixes) == contains(UserMessageOf(c), <<"FIXES:">> \o fixes \o <<"ORIGINAL:">>)

\* C15: qa_and_patch_copy calls the model for a critique exactly when the
\* deterministic checks found nothing wrong with the draft; a draft they
\* flag (too short, too long, disclaimer missing) gets no critique call
\* and goes straight to the one patch call, whose fixes are the list of the
\* issues found.
C15_CritiqueIffNoIssue ==
    qaPc = "done" =>
        /\ (CallsOf("critique") # <<>>) <=> (QaText # <<>> /\ ~Flagged)
        /\ Len(CallsOf("critique")) <= 1
        /\ (QaText # <<>> /\ Flagged) =>
              /\ Len(qaCalls) = 1
              /\ qaCalls[1].step = "patch"
              /\ Len(qaLocals.issues) = FlagCount
              /\ FixesIn(qaCalls[1], issues_critique(qaLocals.issues))

\* A 50-word draft in the bucket of 200 to 550 words went straight to the
\* patch call.
C15_Witness ==
    /\ qaPc = "done"
    /\ qaArgs.draft = JStr(WithDisclaimer(Words(39)))
    /\ qaArgs.length_choice = "Medium (200-500 words)"
    /\ Len(qaCalls) = 1
    /\ qaCalls[1].step = "patch"

\* What the patch call of a draft that was not approved looks like: one
\* call, fed with the critique, PATCHED with the patch text when that is
\* not blank and ERROR with the trimmed draft otherwise.
OnePatchCall ==
    /\ Len(CallsOf("patch")) = 1
    /\ FixesIn(CallsOf("patch")[1], strip(qaLocals.critique))
    /\ IF strip(CallsOf("patch")[1].text) # <<>>
       THEN qaResult.status = "PATCHED" /\ qaResult.copy = strip(CallsOf("patch")[1].text)
       ELSE qaResult.status = "ERROR" /\ qaResult.copy = QaText

\* C16 as stated: whenever the draft is not approved exactly one patch call
\* is made with the critique or issue list as input, the result is PATCHED
\* with the patch text if that is non-blank and ERROR with the trimmed
\* draft otherwise, and the status is always PASS, PATCHED or ERROR.
C16_SinglePatch ==
    qaPc = "done" =>
        /\ ~qaResult.raised
        /\ qaResult.status \in {"PASS", "PATCHED", "ERROR"}
        /\ qaResult.status # "PASS" => OnePatchCall

\* C16, amended: the same for every draft that is not blank; a blank draft
\* is answered with ERROR, the critique "Empty draft" and an empty copy
\* without any provider call.
C16_SinglePatchNonBlank ==
    qaPc = "done" =>
        /\ ~qaResult.raised
        /\ qaResult.status \in {"PASS", "PATCHED", "ERROR"}
        /\ (qaResult.status # "PASS" /\ QaText # <<>>) => OnePatchCall
        /\ QaText = <<>> =>
              /\ qaResult = QaResult("ERROR", EMPTY_DRAFT, <<>>)
              /\ qaCalls = <<>>

\* A draft whose patch came back blank is returned unchanged with ERROR.
C16_Witness ==
    /\ qaPc = "done"
    /\ QaText # <<>>
    /\ qaResult.status = "ERROR"
    /\ qaResult.copy = QaText
    /\ Len(CallsOf("patch")) = 1

\* "PASS" occurs in t in some mix of upper and lower case.
HasPassAnyCase(t) ==
    \E i \in 1..(Len(t) - 3) :
        /\ t[i] \in {"P", "p"}
        /\ t[i + 1] \in {"A", "a"}
        /\ t[i + 2] \in {"S", "s"}
        /\ t[i + 3] \in {"S", "s"}

\* C17: when the deterministic checks found nothing, the draft is approved
\* exactly when the critique contains "PASS" in any letter case anywhere;
\* an approved draft gives status PASS with the trimmed draft as copy and
\* no patch call.
C17_ApprovedOnPass ==
    (qaPc = "done" /\ QaText # <<>> /\ ~Flagged) =>
        /\ Len(CallsOf("critique")) = 1
        /\ (qaResult.status = "PASS") <=> HasPassAnyCase(CallsOf("critique")[1].text)
        /\ qaResult.status = "PASS" =>
              /\ qaResult.copy = QaText
              /\ CallsOf("patch") = <<>>

\* A critique that has "pass" only inside a lower-case word approved the
\* draft.
C17_Witness ==
    /\ qaPc = "done"
    /\ qaResult.status = "PASS"
    /\ Len(qaCalls) = 1
    /\ ~contains(qaCalls[1].text, PASS)
    /\ Len(qaCalls[1].text) > 4

\* The parsed response has no non-empty "copy" value: no JSON object, no
\* such key, or the empty string.
NoCopyValue ==
    \/ gcCall.ret.parsed = JNull
    \/ <<"copy">> \notin DOMAIN gcCall.ret.parsed.m
    \/ gcCall.ret.parsed.m[<<"copy">>] = JStr(<<>>)

NewlinesUnescaped(t) == [i \in 1..Len(t) |-> IF t[i] = "\\n" THEN "\n" ELSE t[i]]

\* C18 as stated: without a non-empty "copy" value the returned copy is
\* the fence-stripped raw response, and the copy is non-empty whenever the
\* provider response is not blank.
C18_FallbackCopy ==
    gcCall.called =>
        /\ NoCopyValue => gcCall.ret.copy = sanitize_json_text(gcCall.ret.raw)
        /\ strip(gcCall.ret.raw) # <<>> => gcCall.ret.copy # <<>>

\* C18, amended: without a non-empty "copy" value the returned copy is the
\* fence-stripped response, or the trimmed raw response when stripping the
\* fences leaves nothing, in both cases with every literal backslash-n
\* replaced by a newline; the copy is non-empty whenever the provider
\* response is not blank.
C18_FallbackCopyOrRaw ==
    gcCall.called =>
        /\ NoCopyValue =>
              gcCall.ret.copy =
                  NewlinesUnescaped(IF sanitize_json_text(gcCall.ret.raw) # <<>>
                                    THEN sanitize_json_text(gcCall.ret.raw)
                                    ELSE strip(gcCall.ret.raw))
        /\ strip(gcCall.ret.raw) # <<>> => gcCall.ret.copy # <<>>

\* A response that is nothing but a code fence came back as the copy.
C18_Witness ==
    /\ gcCall.called
    /\ gcCall.ret.raw = <<FENCE, JSON_WORD>>
    /\ gcCall.ret.copy = <<FENCE, JSON_WORD>>

\* The band of a score under a configuration, its thresholds inclusive.
BandRule(score, cfg) ==
    IF score >= (IF "high_threshold" \in DOMAIN cfg THEN cfg.high_threshold ELSE 8)
    THEN "high_rule"
    ELSE IF score <= (IF "low_threshold" \in DOMAIN cfg THEN cfg.low_threshold ELSE 3)
    THEN "low_rule"
    ELSE "mid_rule"

\* The rules a trait emits: the rule of its band if the configuration of
\* the trait has one that is not blank, and nothing otherwise.
Emitted(name, score, trait_cfg) ==
    IF name \notin DOMAIN trait_cfg THEN <<>>
    ELSE IF BandRule(score, trait_cfg[name]) \notin DOMAIN trait_cfg[name] THEN <<>>
    ELSE IF strip(trait_cfg[name][BandRule(score, trait_cfg[name])]) = <<>> THEN <<>>
    ELSE <<trait_cfg[name][BandRule(score, trait_cfg[name])]>>

RECURSIVE EmittedAll(_, _)
EmittedAll(traits, trait_cfg) ==
    IF traits = <<>> THEN <<>>
    ELSE Emitted(Head(traits)[1], Head(traits)[2], trait_cfg)
            \o EmittedAll(Tail(traits), trait_cfg)

\* C19: trait_rules emits for each configured trait at most one rule, the
\* high rule when score >= high_threshold (default 8), else the low rule
\* when score <= low_threshold (default 3), else the mid rule if there is
\* one; a trait without configuration emits nothing.
C19_TraitBands ==
    trOut.applied => trOut.rules = EmittedAll(trIn.traits, trIn.trait_cfg)

\* With the default thresholds a score of exactly 8 emitted the high rule.
C19_Witness ==
    /\ trOut.applied
    /\ trIn.traits = << <<"Urgency", 8>> >>
    /\ trIn.trait_cfg = ("Urgency" :> [high_rule |-> URGENT_RULE, low_rule |-> CALM_RULE])
    /\ trOut.rules = <<URGENT_RULE>>

IsError(t) == startswith(t, <<ERR>>)

\* C20: no pipeline goes on with a provider error text as if it were
\* content: the debate records no error text as a turn,
\* generate_copy_with_plan returns none as the copy, and qa_and_patch_copy
\* neither patches on an error text taken for a critique nor returns one
\* as the copy with status PATCHED.
C20_ErrorsPresented ==
    /\ \A i \in 1..Len(fgResult.debate_turns) : ~IsError(fgResult.debate_turns[i].text)
    /\ gcCall.called => ~IsError(gcCall.ret.copy)
    /\ qaPc = "done" =>
          /\ qaResult.status = "PATCHED" => ~IsError(qaResult.copy)
          /\ \A i \in 1..Len(qaCalls) :
                (qaCalls[i].step = "critique" /\ IsError(qaCalls[i].text)) =>
                    CallsOf("patch") = <<>>

(***************************************************************************)
(* Order and grounding of the debate calls, JSON mode, risk flags, fence   *)
(* stripping and persona guardrails.                                       *)
(***************************************************************************)
\* The steps of a debate run in the order of the code.
DebateOrder ==
    (IF fgArgs.extract_brief THEN <<"brief">> ELSE <<>>)
        \o <<"believer", "skeptic", "rebuttal", "counter", "moderator">>

StepRank(step) == CHOOSE k \in 1..Len(DebateOrder) : DebateOrder[k] = step
StepsCalled == {fgCalls[i].step : i \in 1..Len(fgCalls)}
AttemptsOf(step) == SelectSeq(fgCalls, LAMBDA c : c.step = step)

\* The user message of the first provider attempt of a step.
StepPrompt(step) ==
    AttemptsOf(step)[1].attempt.messages[Len(AttemptsOf(step)[1].attempt.messages)].content

DebateCompleted == fgPc = "done" /\ ~fgResult.raised /\ "debate_turns" \in fgResult.keys

\* C21: the provider calls of one focus_group_debate run are made one at a
\* time in the order brief extraction (if enabled), Believer opening,
\* Skeptic response, Believer rebuttal, Skeptic counter, Moderator; the
\* Skeptic response prompt holds the Believer opening text, the rebuttal
\* prompt the Skeptic response text, the counter prompt the rebuttal text,
\* and the Moderator prompt the transcript of the four turns.
C21_DebateOrder ==
    fgPc # "idle" =>
        /\ \A i \in 1..Len(fgCalls) : fgCalls[i].step \in StepsCalled
        /\ \A i, j \in 1..Len(fgCalls) :
              i < j => StepRank(fgCalls[i].step) <= StepRank(fgCalls[j].step)
        /\ \A s \in StepsCalled :
              /\ s \in {DebateOrder[k] : k \in 1..Len(DebateOrder)}
              /\ \A k \in 1..(StepRank(s) - 1) : DebateOrder[k] \in StepsCalled
              /\ s # "moderator" => Len(AttemptsOf(s)) = 1
        /\ "skeptic" \in StepsCalled =>
              contains(StepPrompt("skeptic"), <<"The Believer said:">> \o fgLocals.msg_a)
        /\ "rebuttal" \in StepsCalled =>
              contains(StepPrompt("rebuttal"), <<"Skeptic said:">> \o fgLocals.msg_b)
        /\ "counter" \in StepsCalled =>
              contains(StepPrompt("counter"), <<"Believer said:">> \o fgLocals.msg_a2)
        /\ DebateCompleted =>
              /\ StepsCalled = {DebateOrder[k] : k \in 1..Len(DebateOrder)}
              /\ contains(StepPrompt("moderator"), <<"TRANSCRIPT:">> \o fgResult.transcript)
              /\ \A k \in 1..4 :
                    /\ contains(fgResult.transcript, fgResult.debate_turns[k].text)
                    /\ fgResult.debate_turns[k].text =
                          <<fgLocals.msg_a, fgLocals.msg_b, fgLocals.msg_a2, fgLocals.msg_b2>>[k]

\* A completed run with brief extraction whose opening was an error text,
\* quoted in the Skeptic's prompt.
C21_Witness ==
    /\ DebateCompleted
    /\ fgArgs.extract_brief
    /\ Len(fgCalls) >= 6
    /\ fgLocals.msg_a = <<ERR, SP, "timeout">>
    /\ fgLocals.msg_b = <<"reply">>
    /\ contains(StepPrompt("skeptic"), <<"The Believer said:", ERR, SP, "timeout">>)

\* C22: a request made with expect_json true asks the provider that serves
\* it for its JSON-output mode, also when a Gemini request is served by
\* OpenAI through the fallback, which keeps the request's temperature and
\* output-token limit.
C22_JsonModeRequested ==
    (llmReq.entry # "idle" /\ llmReq.expect_json) =>
        \A i \in 1..Len(llmRes.log) :
            LET att == llmRes.log[i]
            IN  /\ att.json_mode
                /\ (llmReq.entry = "query_gemini_chat" /\ att.provider = "Primary") =>
                      /\ att.temperature = OPENAI_DEFAULT_TEMPERATURE
                      /\ att.max_tokens = <<GEMINI_DEFAULT_MAX_OUTPUT_TOKENS>>

\* The phrase occurs in the text when letter case is ignored.
OccursIgnoringCase(t, tok) ==
    \E i \in 1..(Len(t) - Len(tok) + 1) :
        \A k \in 1..Len(tok) : lower_word(t[i + k - 1]) = tok[k]

\* The labels of the categories one of whose phrases occurs in the text,
\* in the order of the categories.
FlagsOf(t) ==
    SelectSeq([k \in 1..Len(RiskPatterns) |-> RiskPatterns[k].label],
              LAMBDA l : \E k \in 1..Len(RiskPatterns) :
                            /\ RiskPatterns[k].label = l
                            /\ \E tok \in RiskPatterns[k].toks : OccursIgnoringCase(t, tok))

\* C26: risk_flags_detected of a debate result is a function of the
\* creative alone, whatever the providers did: each of the four category
\* labels is reported once, in category order, exactly when one of its
\* phrases occurs in the creative with letter case ignored.
C26_RiskFlagsLocal ==
    DebateCompleted =>
        /\ fgResult.risk_flags_detected = FlagsOf(trimmed_creative(fgArgs.creative_text))
        /\ Len(RiskPatterns) = 4

\* Every call came back as an error text and the flags were reported.
C26_Witness ==
    /\ DebateCompleted
    /\ ~get_openai_client(secrets)
    /\ \A k \in 1..4 : startswith(fgResult.debate_turns[k].text, <<ERR>>)
    /\ fgResult.risk_flags_detected =
          <<"Guaranteed / certainty language", "Overly absolute claims">>

FencePrefixes == {<<>>, <<FENCE, JSON_WORD, SP>>, <<FENCE, SP>>}
FenceSuffixes == {<<>>, <<SP, FENCE>>}

\* C27: fence stripping removes a fence token at the start and the end of
\* the model text only, so the serialisation of an object, fenced or not,
\* is parsed back to that object also when its strings contain fences.
C27_OnlyOuterFenceStripped ==
    (/\ jsonOrigin.kind = "wrapped"
     /\ isinstance_dict(jsonOrigin.val)
     /\ jsonOrigin.pre \in FencePrefixes
     /\ jsonOrigin.post \in FenceSuffixes) =>
        /\ sanitize_json_text(jsonText) = Serialize(jsonOrigin.val)
        /\ "parse" \in jsonDone => jsonParsed = Returned(jsonOrigin.val)

\* The text of every message of a provider attempt, in order.
RECURSIVE AttemptText(_)
AttemptText(messages) ==
    IF messages = <<>> THEN <<>>
    ELSE Head(messages).content \o AttemptText(Tail(messages))

\* The prompt frames the persona by the name, age, occupation and location
\* its core has.
HasField(prompt, p, k) ==
    k \in DOMAIN p.core.m => contains(prompt, PyStr(dict_get(p.core, k)))

IdentityFramed(prompt, p) ==
    /\ HasField(prompt, p, <<"name">>)
    /\ HasField(prompt, p, <<"age">>)
    /\ HasField(prompt, p, <<"occupation">>)
    /\ HasField(prompt, p, <<"location">>)

\* The prompt tells the model not to give financial advice.
NoAdviceInstructed(prompt) ==
    \E i \in 1..Len(prompt) :
        prompt[i] \in
            {"Do not give financial advice; focus on reactions to marketing, credibility, and decision triggers.",
             "Don't give financial advice; focus on reactions to marketing, credibility, and decision triggers."}

\* The prompt limits the length of the answer.
LengthCapped(prompt) ==
    \E i \in 1..Len(prompt) :
        prompt[i] \in
            {"Keep answers under ~140 words unless asked for depth.",
             "Answer in 4 short bullets:", "Answer in 5 short bullets:",
             "Reply to the Skeptic in 5-6 sentences max.",
             "Counter the Believer in 5-6 sentences max."}

Guarded(prompt, p) ==
    IdentityFramed(prompt, p) /\ NoAdviceInstructed(prompt) /\ LengthCapped(prompt)

TurnPersona(step) ==
    IF step \in {"believer", "rebuttal"} THEN fgArgs.believer ELSE fgArgs.skeptic

\* C30: every persona-voiced call of the debate and of the headline test
\* is sent with the persona's identity framing (name, age, occupation and
\* location), an instruction not to give financial advice and an
\* instruction that caps the length of the response.
C30_PersonaGuardrails ==
    /\ \A i \in 1..Len(fgCalls) :
          fgCalls[i].step \in {"believer", "skeptic", "rebuttal", "counter"} =>
              Guarded(AttemptText(fgCalls[i].attempt.messages), TurnPersona(fgCalls[i].step))
    /\ \A i \in 1..Len(htResults) :
          \A k \in 1..Len(htResults[i].log) :
              Guarded(AttemptText(htResults[i].log[k].messages), htArgs.selected[i])

(***************************************************************************)
(* Properties of the excerpts (SpecExcerpt).                               *)
(***************************************************************************)
ExcerptsComputed == exOut.applied /\ ~exOut.error

\* C23: whatever the scope, the word number and the custom excerpt, the
\* excerpt shown to the participants has at most 1500 words.
C23_ExcerptCapped ==
    ExcerptsComputed => word_count(exOut.excerpt) <= PARTICIPANT_CAP_WORDS

\* a is the sequence of the first words of b.
WordPrefix(a, b) == Len(a) <= Len(b) /\ \A i \in 1..Len(a) : a[i] = b[i]

\* C24: truncate_words(text, n) with n >= 0 keeps whole words: the words of
\* its result are the first min(n, word count) words of the text, and a text
\* of at most n words comes back unchanged; so the creative given to the
\* moderator and to the brief extraction has at most 4500 words, which are
\* the first words of the trimmed creative.
C24_WholeWords ==
    /\ twOut.applied =>
          \E text \in {or_empty(exArgs.creative_text)} :
          \E words \in {findall_words(text)} :
              /\ findall_words(twOut.text) = Prefix(words, exArgs.participant_n_words)
              /\ Len(words) <= exArgs.participant_n_words => twOut.text = text
    /\ ExcerptsComputed =>
          \E kept \in {findall_words(exOut.creative_for_moderator)} :
              /\ Len(kept) <= MODERATOR_CAP_WORDS
              /\ WordPrefix(kept, findall_words(trimmed_creative(exArgs.creative_text)))

C24_Witness ==
    /\ twOut.applied /\ ExcerptsComputed
    /\ exArgs.participant_n_words >= 1
    /\ word_count(or_empty(exArgs.creative_text)) > exArgs.participant_n_words
    /\ twOut.text # or_empty(exArgs.creative_text)
    /\ word_count(exOut.creative_for_moderator) = MODERATOR_CAP_WORDS
    /\ exOut.creative_for_moderator # trimmed_creative(exArgs.creative_text)

(***************************************************************************)
(* The fast checks of qa_and_patch_copy at the edges of the length         *)
(* buckets (SpecCreative).                                                 *)
(***************************************************************************)
\* C25: the fast checks of qa_and_patch_copy flag a non-empty draft exactly
\* when its word count is below half the minimum of the length bucket, or
\* above 1.25 times the maximum of a bucket that has one, or the disclaimer
\* line does not occur in it; one issue is listed per check that fails.
C25_FastChecks ==
    (qaPc # "idle" /\ QaText # <<>>) =>
        /\ (qaLocals.issues # <<>>) <=> Flagged
        /\ Len(qaLocals.issues) = FlagCount

\* A draft with the disclaimer, one word over 1.25 times a maximum that is
\* not a multiple of four, has been flagged.
C25_Witness ==
    /\ qaPc # "idle"
    /\ ~NoDisclaimer /\ ~TooShort
    /\ QaBucket[2] % 4 # 0
    /\ 4 * QaWordCount > 5 * QaBucket[2]
    /\ 4 * (QaWordCount - 1) <= 5 * QaBucket[2]
    /\ Len(qaLocals.issues) = 1

(***************************************************************************)
(* Properties of fetch_meta_descriptions (SpecFetch, SpecFetchFair).       *)
(***************************************************************************)
TasksAt(pcs) == {i \in 1..Len(fmTasks) : fmTasks[i].pc \in pcs}
InFlight == Cardinality(TasksAt({"fetching"}))
PermitsHeld == Cardinality(TasksAt({"woken", "fetching"}))

FetchesBounded ==
    /\ InFlight <= fmArgs.concurrency
    /\ fmSem.value + PermitsHeld = fmArgs.concurrency
    /\ fmSem.value >= 0
    /\ fmReturn.returned => fmSem.value = fmArgs.concurrency /\ fmSem.waiters = <<>>

\* C28: at no time are more requests in flight than the concurrency bound;
\* the free permits and the permits held always add up to the bound, so
\* none is lost; and every task gets its permit and starts, so the batch
\* returns with every permit back.
C28_BoundedFetches ==
    /\ []FetchesBounded
    /\ <>(fmReturn.returned /\ TasksAt({"done"}) = 1..Len(fmArgs.urls))

\* More URLs than permits: a task has waited, and the bound is reached.
C28_Witness ==
    /\ Len(fmArgs.urls) > fmArgs.concurrency
    /\ InFlight = fmArgs.concurrency
    /\ TasksAt({"waiting"}) # {}
    /\ TasksAt({"done"}) # {}

FetchFailed(i) ==
    \/ invalid_url(fmArgs.urls[i])
    \/ fmTasks[i].outcome.kind = "raise"
    \/ fmTasks[i].outcome.kind = "response" /\ fmTasks[i].outcome.status # HTTP_OK

FetchDescribed(i) ==
    /\ ~invalid_url(fmArgs.urls[i])
    /\ fmTasks[i].outcome.kind = "response"
    /\ fmTasks[i].outcome.status = HTTP_OK
    /\ fmTasks[i].outcome.has_tag
    /\ strip(fmTasks[i].outcome.content) # <<>>

LegacyPlaceholders ==
    {INVALID_URL, ERROR_FETCHING, NO_META_DESCRIPTION}
        \cup {<<"HTTP", SP, ToString(o.status)>> : o \in FetchOutcomes}

====
